---- MODULE Spec2Model ----
(***************************************************************************)
(* A model of the build orchestration of galsim.config (process.py):       *)
(*   - Process: the numbering loop over the output files, the sequential   *)
(*     build, and the multiprocessing dispatch (task queue, workers, done  *)
(*     queue, STOP sentinels, joins);                                      *)
(*   - CopyConfig: which branches of a task's config are private;          *)
(*   - BuildFits: the layout of the hdus of one file;                      *)
(*   - BuildDataCube: the first image fixing the size of the cube;         *)
(*   - BuildMultiFits: the images of a multi-extension file;               *)
(*   - the extra files (psf, weight, badpix) of the loop of Process;       *)
(* and of the input objects of galsim.config (input.py): ProcessInput,     *)
(* ProcessInputNObjects and the nobj functions that call them.             *)
(* Each part has its own specification (Spec, SpecPair, SpecCopy,          *)
(* SpecFits, SpecCube, SpecMulti, SpecExtras, SpecInput, SpecNObj,         *)
(* SpecLive); the variables of the other parts stay at their initial       *)
(* values.                                                                 *)
(***************************************************************************)
EXTENDS Integers, Sequences, FiniteSets, TLC

\* ------------------------------------------------------------------ bounds
MaxFiles == 3
MaxProc == 2
MaxImages == 2

\* Python's None, for the optional integer arguments (nproc2, psf_hdu, ...).
None == -100

VARIABLES
    \* ---- Process
    cfg,          \* the configuration and the environment the run reads
    pc,           \* where the dispatcher (the caller of Process) is
    nproc,        \* the file-level number of processes
    nproc2,       \* the nproc handed to the build function, or None
    file_num,     \* the loop variable of the numbering loop
    image_num,    \* running image number
    obj_num,      \* running object number
    nfiles_use,   \* how many results the dispatcher will wait for
    cur,          \* the kwargs of the file being built sequentially
    task_queue,   \* multiprocessing.Queue of tasks and 'STOP'
    done_queue,   \* multiprocessing.Queue of results
    p_list,       \* the workers: their state and the task they hold
    k,            \* results taken so far from done_queue
    nstop,        \* 'STOP' sentinels put so far
    njoin,        \* workers joined so far
    fs,           \* the output files that exist
    nobjRet,      \* history: what nobj_func returned, per file
    taskLog,      \* history: the kwargs fixed by the loop, per file
    putLog,       \* history: the file_num of the tasks put on the task queue
    buildLog,     \* history: the build_func invocations, in order
    inputLog,     \* history: per file, the ProcessInput calls made for its build
    received,     \* history: the results the dispatcher logged
    runNo,        \* 1, or 2 when Process runs again on the same config
    prevLog,      \* history: buildLog of the first run
    \* ---- CopyConfig
    heap,         \* object id -> value of a branch dict
    jobCfg,       \* the job config: branch -> object id
    taskCfg,      \* the task configs made by CopyConfig: branch -> object id
    \* ---- BuildFits
    fits,
    \* ---- BuildDataCube
    cube,
    \* ---- BuildMultiFits
    mfits,
    \* ---- the extra files of Process
    extras,
    \* ---- ProcessInput (input.py)
    inp,
    \* ---- ProcessInputNObjects and the nobj functions
    nob

procVars == << cfg, pc, nproc, nproc2, file_num, image_num, obj_num, nfiles_use,
               cur, task_queue, done_queue, p_list, k, nstop, njoin, fs,
               nobjRet, taskLog, putLog, buildLog, inputLog, received, runNo, prevLog >>
copyVars == << heap, jobCfg, taskCfg >>
fitsVars == << fits >>
cubeVars == << cube >>
multiVars == << mfits >>
extraVars == << extras >>
inputVars == << inp >>
nobjVars == << nob >>
vars == << procVars, copyVars, fitsVars, cubeVars, multiVars, extraVars, inputVars,
           nobjVars >>

\* ------------------------------------------------------------ helpers
Min(a, b) == IF a < b THEN a ELSE b

RECURSIVE SumSeq(_)
SumSeq(s) == IF s = << >> THEN 0 ELSE Head(s) + SumSeq(Tail(s))

Range(s) == { s[i] : i \in 1..Len(s) }

\* Python truthiness of an optional integer: None and 0 are false.
Truthy(x) == x # None /\ x # 0

\* ------------------------------------------------- valid_output_types
OutputTypes == { "Fits", "MultiFits", "DataCube" }

\* valid_output_types[type][2]: whether the builder takes nproc.
can_do_multiple(type) == type \in { "MultiFits", "DataCube" }

\* ------------------------------------------------- the configurations
\* Objects per image, GetNObjForImage(config, image_num): the first number for
\* the even image numbers, the second for the odd ones.
NobjChoices == { << 10, 10 >>, << 1, 2 >> }

\* output.type with output.nimages (a Fits file holds one image).
TypeChoices ==
    { [ t |-> "Fits", n |-> 1 ] }
        \cup { [ t |-> ty, n |-> m ] : ty \in { "MultiFits", "DataCube" }, m \in 1..MaxImages }

\* output.nproc with the outcome of cpu_count() (0: cpu_count raised), which is
\* read only when output.nproc <= 0.
ProcChoices ==
    { [ req |-> r, ncpu |-> 1 ] : r \in 1..MaxProc }
        \cup { [ req |-> 0, ncpu |-> 0 ], [ req |-> -1, ncpu |-> MaxProc ] }

\* The files for which output.skip evaluates to true.
SkipChoices(n) == { {} } \cup { { f } : f \in 0..(n - 1) } \cup { 0..(n - 1) }

\* The name of file f: without output.file_name every file is root + '.fits'
\* (name 0), otherwise the names are numbered (name f + 1).
FileName(c, f) == IF c.sameName THEN 0 ELSE f + 1

\* What can keep a file from being built: output.skip, output.noclobber with
\* the files that exist before the run (and whether the files share one name),
\* and the file whose build raises (-1: none).
Plain == [ skip |-> {}, nc |-> FALSE, same |-> FALSE, ex |-> {}, fail |-> -1 ]

Scenarios(n) ==
    { [ Plain EXCEPT !.skip = sk ] : sk \in SkipChoices(n) }
        \cup { [ Plain EXCEPT !.nc = TRUE, !.same = TRUE ],
               [ Plain EXCEPT !.nc = TRUE, !.ex = { n } ],
               [ Plain EXCEPT !.nc = TRUE, !.same = TRUE, !.skip = { 0 } ],
               [ Plain EXCEPT !.skip = { 0 }, !.fail = n - 1 ] }
        \cup { [ Plain EXCEPT !.fail = f ] : f \in 0..(n - 1) }

ConfigsFor(n) ==
    { [ type |-> ty.t, nimages |-> ty.n, nfiles |-> n, nprocReq |-> pr.req,
        ncpu |-> pr.ncpu, nobj |-> no, skip |-> sc.skip, noclobber |-> sc.nc,
        sameName |-> sc.same, exists0 |-> sc.ex, failFile |-> sc.fail ] :
        ty \in TypeChoices, pr \in ProcChoices, no \in NobjChoices,
        sc \in Scenarios(n) }

Configs == UNION { ConfigsFor(n) : n \in 1..MaxFiles }

\* ------------------------------------------------------- Process: nproc
\* Lines 228-237: more processes than files.
\* (The mutant keeps the requested number.)
ClampNproc_asRequested(req, nfiles, multi) == [ nproc |-> req, nproc2 |-> None ]

ClampNproc(req, nfiles, multi) ==
    IF req > nfiles
    THEN IF nfiles = 1 /\ multi
         THEN [ nproc |-> 1, nproc2 |-> req ]
         ELSE [ nproc |-> nfiles, nproc2 |-> None ]
    ELSE [ nproc |-> req, nproc2 |-> None ]

\* Lines 239-261: nproc <= 0 asks for the number of cpus.
AutoNproc(r, nfiles, multi, ncpu) ==
    IF r.nproc <= 0
    THEN IF ncpu = 0
         THEN [ nproc |-> 1, nproc2 |-> r.nproc2 ]
         ELSE IF nfiles = 1 /\ multi
              THEN [ nproc |-> 1, nproc2 |-> ncpu ]
              ELSE [ nproc |-> Min(ncpu, nfiles), nproc2 |-> r.nproc2 ]
    ELSE r

EffectiveNproc(c) ==
    AutoNproc(ClampNproc(c.nprocReq, c.nfiles, can_do_multiple(c.type)),
              c.nfiles, can_do_multiple(c.type), c.ncpu)

\* ------------------------------------------------------ Process: nobj_func
GetNObjForImage(c, i) == c.nobj[(i % 2) + 1]

\* GetNObjForFits: one image; GetNObjForMultiFits, GetNObjForDataCube: nimages.
nobj_func(c, f, img) ==
    IF c.type = "Fits"
    THEN << GetNObjForImage(c, img) >>
    ELSE [ j \in 1..c.nimages |-> GetNObjForImage(c, img + j - 1) ]

\* --------------------------------------------------------- Process: state
StopMsg == [ kind |-> "STOP" ]

\* The kwargs of one file (lines 322-330) as put on the task queue with
\* file_num and file_name (line 414).
Task_noObjNum(f, name, img, obj, np2) ==
    [ kind |-> "task", file_num |-> f, file_name |-> name, image_num |-> img,
      obj_num |-> 0, nproc |-> IF Truthy(np2) THEN np2 ELSE None ]

Task(f, name, img, obj, np2) ==
    [ kind |-> "task", file_num |-> f, file_name |-> name, image_num |-> img,
      obj_num |-> obj, nproc |-> IF Truthy(np2) THEN np2 ELSE None ]

NoTask == [ kind |-> "none" ]

Workers == 1..MaxProc

ProcStart(c, run, prev) ==
    /\ cfg = c
    /\ pc = "start"
    /\ nproc = 0
    /\ nproc2 = None
    /\ file_num = 0
    /\ image_num = 0
    /\ obj_num = 0
    /\ nfiles_use = 0
    /\ cur = NoTask
    /\ task_queue = << >>
    /\ done_queue = << >>
    /\ p_list = [ w \in Workers |-> [ st |-> "unborn", task |-> NoTask ] ]
    /\ k = 0
    /\ nstop = 0
    /\ njoin = 0
    /\ fs = c.exists0
    /\ nobjRet = << >>
    /\ taskLog = << >>
    /\ putLog = << >>
    /\ buildLog = << >>
    /\ inputLog = [ f \in 0..(c.nfiles - 1) |-> 0 ]
    /\ received = << >>
    /\ runNo = run
    /\ prevLog = prev

ProcIdle == ProcStart([ nfiles |-> 0, exists0 |-> {} ], 0, << >>)

CopyIdle ==
    /\ heap = << >>
    /\ jobCfg = << >>
    /\ taskCfg = << >>

FitsIdle == fits = [ pc |-> "idle" ]

CubeIdle == cube = [ pc |-> "idle" ]

MultiIdle == mfits = [ pc |-> "idle" ]

ExtrasIdle == extras = [ pc |-> "idle" ]

InputIdle == inp = [ pc |-> "idle" ]

NObjIdle == nob = [ pc |-> "idle" ]

Init ==
    /\ \E c \in Configs : ProcStart(c, 1, << >>)
    /\ CopyIdle
    /\ FitsIdle
    /\ CubeIdle
    /\ MultiIdle
    /\ ExtrasIdle
    /\ InputIdle
    /\ NObjIdle

\* ------------------------------------------------------- Process: actions
\* Process touches nothing of the other parts.
ProcFrame == UNCHANGED << copyVars, fitsVars, cubeVars, multiVars, extraVars, inputVars, nobjVars >>

\* Lines 158-293: the output type, nfiles, nproc, the task queue, the counters.
ProcessSetup ==
    /\ ProcFrame
    /\ pc = "start"
    /\ pc' = "loop"
    /\ nproc' = EffectiveNproc(cfg).nproc
    /\ nproc2' = EffectiveNproc(cfg).nproc2
    /\ image_num' = 0
    /\ obj_num' = 0
    /\ nfiles_use' = cfg.nfiles
    /\ file_num' = 0
    /\ UNCHANGED << cfg, cur, task_queue, done_queue, p_list, k, nstop, njoin, fs,
                    nobjRet, taskLog, putLog, buildLog, inputLog, received, runNo, prevLog >>

\* Lines 343-357: output.skip, or output.noclobber and the file exists.
SkipsFile(c, f, files) ==
    \/ f \in c.skip
    \/ c.noclobber /\ FileName(c, f) \in files

\* Lines 264, 412, 426: whether the files go through the task queue.
UsesQueue_atLeastOne(n) == n >= 1

UsesQueue(n) == n > 1

\* Lines 348, 356: a skipped file is not waited for.
SkipCount_forgotten(n) == n

SkipCount(n) == n - 1

\* The numbers the loop has reached after a file with the counts nobj
\* (lines 340-341).
Advance_perFile(n, nobj) == [ image_num |-> n.image_num + 1,
                              obj_num |-> n.obj_num + SumSeq(nobj) ]

Advance(n, nobj) == [ image_num |-> n.image_num + Len(nobj),
                      obj_num |-> n.obj_num + SumSeq(nobj) ]

\* Lines 294-421, one iteration of the loop over the files: the kwargs, the
\* counts, the skips, and then the task is queued (nproc > 1) or built here.
ProcessFile ==
    /\ ProcFrame
    /\ pc = "loop"
    /\ file_num < cfg.nfiles
    /\ LET kwargs == Task(file_num, FileName(cfg, file_num), image_num, obj_num, nproc2)
           nobj == nobj_func(cfg, file_num, image_num)
           next == Advance([ image_num |-> image_num, obj_num |-> obj_num ], nobj)
       IN  /\ image_num' = next.image_num
           /\ obj_num' = next.obj_num
           /\ nobjRet' = Append(nobjRet, nobj)
           /\ taskLog' = Append(taskLog, kwargs)
           /\ IF SkipsFile(cfg, file_num, fs)
              THEN /\ nfiles_use' = SkipCount(nfiles_use)
                   /\ file_num' = file_num + 1
                   /\ UNCHANGED << pc, cur, task_queue, putLog >>
              ELSE IF UsesQueue(nproc)
              THEN /\ task_queue' = Append(task_queue, kwargs)
                   /\ putLog' = Append(putLog, file_num)
                   /\ file_num' = file_num + 1
                   /\ UNCHANGED << pc, cur, nfiles_use >>
              ELSE /\ pc' = "seqInput"
                   /\ cur' = kwargs
                   /\ UNCHANGED << file_num, task_queue, nfiles_use, putLog >>
    /\ UNCHANGED << cfg, nproc, nproc2, done_queue, p_list, k, nstop, njoin, fs,
                    buildLog, inputLog, received, runNo, prevLog >>

\* Line 416: ProcessInput for the file, in the caller.
SeqProcessInput ==
    /\ ProcFrame
    /\ pc = "seqInput"
    /\ pc' = "seqBuild"
    /\ inputLog' = [ inputLog EXCEPT ![cur.file_num] = @ + 1 ]
    /\ UNCHANGED << cfg, nproc, nproc2, file_num, image_num, obj_num, nfiles_use, cur,
                    task_queue, done_queue, p_list, k, nstop, njoin, fs,
                    nobjRet, taskLog, putLog, buildLog, received, runNo, prevLog >>

\* What build_func is called with.
BuildCall(t) == [ file_num |-> t.file_num, image_num |-> t.image_num,
                  obj_num |-> t.obj_num ]

\* Line 419: build_func in the caller; an exception leaves Process.
SeqBuild ==
    /\ ProcFrame
    /\ pc = "seqBuild"
    /\ buildLog' = Append(buildLog, BuildCall(cur))
    /\ IF cur.file_num = cfg.failFile
       THEN /\ pc' = "raised"
            /\ UNCHANGED << fs, file_num >>
       ELSE /\ pc' = "loop"
            /\ fs' = fs \cup { cur.file_name }
            /\ file_num' = file_num + 1
    /\ cur' = NoTask
    /\ UNCHANGED << cfg, nproc, nproc2, image_num, obj_num, nfiles_use,
                    task_queue, done_queue, p_list, k, nstop, njoin,
                    nobjRet, taskLog, putLog, inputLog, received, runNo, prevLog >>

\* Lines 422-428: the loop is over; with nproc > 1 the done queue is made.
LoopExit ==
    /\ ProcFrame
    /\ pc = "loop"
    /\ file_num = cfg.nfiles
    /\ pc' = IF UsesQueue(nproc) THEN "spawn" ELSE "done"
    /\ UNCHANGED << cfg, nproc, nproc2, file_num, image_num, obj_num, nfiles_use, cur,
                    task_queue, done_queue, p_list, k, nstop, njoin, fs,
                    nobjRet, taskLog, putLog, buildLog, inputLog, received, runNo, prevLog >>

NSpawned == Cardinality({ w \in Workers : p_list[w].st # "unborn" })

\* Lines 430-433: start the next worker.
SpawnWorker ==
    /\ ProcFrame
    /\ pc = "spawn"
    /\ IF NSpawned < nproc
       THEN /\ p_list' = [ p_list EXCEPT ![NSpawned + 1].st = "idle" ]
            /\ pc' = pc
       ELSE /\ pc' = "drain"
            /\ p_list' = p_list
    /\ UNCHANGED << cfg, nproc, nproc2, file_num, image_num, obj_num, nfiles_use, cur,
                    task_queue, done_queue, k, nstop, njoin, fs,
                    nobjRet, taskLog, putLog, buildLog, inputLog, received, runNo, prevLog >>

\* Lines 436-440: take and log the next result; done_queue.get() blocks.
DrainResult ==
    /\ ProcFrame
    /\ pc = "drain"
    /\ IF k < nfiles_use
       THEN /\ done_queue # << >>
            /\ received' = Append(received, Head(done_queue))
            /\ done_queue' = Tail(done_queue)
            /\ k' = k + 1
            /\ pc' = pc
       ELSE /\ pc' = "stop"
            /\ UNCHANGED << received, done_queue, k >>
    /\ UNCHANGED << cfg, nproc, nproc2, file_num, image_num, obj_num, nfiles_use, cur,
                    task_queue, p_list, nstop, njoin, fs,
                    nobjRet, taskLog, putLog, buildLog, inputLog, runNo, prevLog >>

\* Lines 443-444: one 'STOP' per worker.
PutStop ==
    /\ ProcFrame
    /\ pc = "stop"
    /\ IF nstop < nproc
       THEN /\ task_queue' = Append(task_queue, StopMsg)
            /\ nstop' = nstop + 1
            /\ pc' = pc
       ELSE /\ pc' = "join"
            /\ UNCHANGED << task_queue, nstop >>
    /\ UNCHANGED << cfg, nproc, nproc2, file_num, image_num, obj_num, nfiles_use, cur,
                    done_queue, p_list, k, njoin, fs,
                    nobjRet, taskLog, putLog, buildLog, inputLog, received, runNo, prevLog >>

\* Lines 445-447: join the workers in turn; join() blocks until the worker ended.
JoinWorker ==
    /\ ProcFrame
    /\ pc = "join"
    /\ IF njoin < nproc
       THEN /\ p_list[njoin + 1].st \in { "exited", "dead" }
            /\ njoin' = njoin + 1
            /\ pc' = pc
       ELSE /\ pc' = "done"
            /\ njoin' = njoin
    /\ UNCHANGED << cfg, nproc, nproc2, file_num, image_num, obj_num, nfiles_use, cur,
                    task_queue, done_queue, p_list, k, nstop, fs,
                    nobjRet, taskLog, putLog, buildLog, inputLog, received, runNo, prevLog >>

\* Line 271: iter(input.get, 'STOP'): take the next item; 'STOP' ends the worker.
WorkerGet(w) ==
    /\ ProcFrame
    /\ p_list[w].st = "idle"
    /\ task_queue # << >>
    /\ task_queue' = Tail(task_queue)
    /\ p_list' = IF Head(task_queue).kind = "STOP"
                 THEN [ p_list EXCEPT ![w].st = "exited" ]
                 ELSE [ p_list EXCEPT ![w] = [ st |-> "got", task |-> Head(task_queue) ] ]
    /\ UNCHANGED << cfg, pc, nproc, nproc2, file_num, image_num, obj_num, nfiles_use, cur,
                    done_queue, k, nstop, njoin, fs,
                    nobjRet, taskLog, putLog, buildLog, inputLog, received, runNo, prevLog >>

\* Line 273: ProcessInput on the worker's copy of the task's config.
WorkerProcessInput(w) ==
    /\ ProcFrame
    /\ p_list[w].st = "got"
    /\ p_list' = [ p_list EXCEPT ![w].st = "ready" ]
    /\ inputLog' = [ inputLog EXCEPT ![p_list[w].task.file_num] = @ + 1 ]
    /\ UNCHANGED << cfg, pc, nproc, nproc2, file_num, image_num, obj_num, nfiles_use, cur,
                    task_queue, done_queue, k, nstop, njoin, fs,
                    nobjRet, taskLog, putLog, buildLog, received, runNo, prevLog >>

\* The tuple a worker puts on the done queue (line 277).
\* (The mutant answers with the number and name of the last file.)
Result_lastFile(t, w) == [ file_num |-> cfg.nfiles - 1,
                           file_name |-> FileName(cfg, cfg.nfiles - 1), proc |-> w ]

Result(t, w) == [ file_num |-> t.file_num, file_name |-> t.file_name, proc |-> w ]

\* Line 275: build_func(**kwargs) with the kwargs of the task taken.
\* (The mutant numbers the build by the builds begun before it.)
WorkerBuildCall_running(w) ==
    [ file_num |-> p_list[w].task.file_num,
      image_num |-> SumSeq([ i \in 1..Len(buildLog) |-> Len(nobjRet[buildLog[i].file_num + 1]) ]),
      obj_num |-> SumSeq([ i \in 1..Len(buildLog) |-> SumSeq(nobjRet[buildLog[i].file_num + 1]) ]) ]

WorkerBuildCall(w) == BuildCall(p_list[w].task)

\* Lines 275-277: build_func and the result; an exception of build_func is not
\* caught in worker, so it ends the worker's process and nothing is put.
WorkerBuild(w) ==
    /\ ProcFrame
    /\ p_list[w].st = "ready"
    /\ buildLog' = Append(buildLog, WorkerBuildCall(w))
    /\ IF p_list[w].task.file_num = cfg.failFile
       THEN /\ p_list' = [ p_list EXCEPT ![w].st = "dead" ]
            /\ UNCHANGED << done_queue, fs >>
       ELSE /\ p_list' = [ p_list EXCEPT ![w] = [ st |-> "idle", task |-> NoTask ] ]
            /\ done_queue' = Append(done_queue, Result(p_list[w].task, w))
            /\ fs' = fs \cup { p_list[w].task.file_name }
    /\ UNCHANGED << cfg, pc, nproc, nproc2, file_num, image_num, obj_num, nfiles_use, cur,
                    task_queue, k, nstop, njoin,
                    nobjRet, taskLog, putLog, inputLog, received, runNo, prevLog >>

Next ==
    \/ ProcessSetup
    \/ ProcessFile
    \/ SeqProcessInput
    \/ SeqBuild
    \/ LoopExit
    \/ SpawnWorker
    \/ DrainResult
    \/ PutStop
    \/ JoinWorker
    \/ \E w \in Workers : WorkerGet(w)
    \/ \E w \in Workers : WorkerProcessInput(w)
    \/ \E w \in Workers : WorkerBuild(w)

Spec == Init /\ [][Next]_vars

\* ------------------------------------------- Process, run twice (SpecPair)
\* The same configuration in the same environment, first with output.nproc = 1
\* and, once that run has returned, with output.nproc = n > 1.
Rerun ==
    /\ ProcFrame
    /\ pc = "done"
    /\ runNo = 1
    /\ \E n \in 2..MaxProc :
          \E c \in { [ cfg EXCEPT !.nprocReq = n ] } :
             /\ cfg' = c
             /\ pc' = "start"
             /\ nproc' = 0
             /\ nproc2' = None
             /\ file_num' = 0
             /\ image_num' = 0
             /\ obj_num' = 0
             /\ nfiles_use' = 0
             /\ cur' = NoTask
             /\ task_queue' = << >>
             /\ done_queue' = << >>
             /\ p_list' = [ w \in Workers |-> [ st |-> "unborn", task |-> NoTask ] ]
             /\ k' = 0
             /\ nstop' = 0
             /\ njoin' = 0
             /\ fs' = c.exists0
             /\ nobjRet' = << >>
             /\ taskLog' = << >>
             /\ putLog' = << >>
             /\ buildLog' = << >>
             /\ inputLog' = [ f \in 0..(c.nfiles - 1) |-> 0 ]
             /\ received' = << >>
             /\ runNo' = 2
             /\ prevLog' = buildLog

InitPair ==
    /\ \E c \in { d \in Configs : d.nprocReq = 1 } : ProcStart(c, 1, << >>)
    /\ CopyIdle
    /\ FitsIdle
    /\ CubeIdle
    /\ MultiIdle
    /\ ExtrasIdle
    /\ InputIdle
    /\ NObjIdle

NextPair == Next \/ Rerun

SpecPair == InitPair /\ [][NextPair]_vars

\* ======================================================== claims: Process
ImagesBefore(N) == SumSeq([ i \in 1..N |-> Len(nobjRet[i]) ])
ObjsBefore(N) == SumSeq([ i \in 1..N |-> SumSeq(nobjRet[i]) ])

\* The tasks that are somewhere between the loop and their build.
TasksInFlight ==
    { task_queue[i] : i \in { j \in 1..Len(task_queue) : task_queue[j].kind = "task" } }
        \cup { p_list[w].task : w \in { v \in Workers : p_list[v].st \in { "got", "ready" } } }
        \cup (IF pc \in { "seqInput", "seqBuild" } THEN { cur } ELSE {})

LoopOver == pc \in { "spawn", "drain", "stop", "join", "done" }

\* C1: the image_num and obj_num in the kwargs of file N are the sums of
\* len(nobj) and of sum(nobj) over the files 0..N-1, nobj being what nobj_func
\* returned for each file; every task in flight carries the kwargs the loop
\* fixed; and no worker exists before the loop has fixed the kwargs of all
\* the files.
C1_StartIndicesArePrefixSums ==
    /\ Len(taskLog) = Len(nobjRet)
    /\ \A i \in 1..Len(taskLog) :
          /\ taskLog[i].file_num = i - 1
          /\ taskLog[i].image_num = ImagesBefore(i - 1)
          /\ taskLog[i].obj_num = ObjsBefore(i - 1)
    /\ \A t \in TasksInFlight :
          /\ t.file_num < Len(taskLog)
          /\ t = taskLog[t.file_num + 1]
    /\ LoopOver => Len(taskLog) = cfg.nfiles
    /\ (\E w \in Workers : p_list[w].st # "unborn") => LoopOver

C1_Witness ==
    \E w \in Workers :
        /\ p_list[w].st = "ready"
        /\ p_list[w].task.file_num = 2
        /\ p_list[w].task.image_num = 4
        /\ p_list[w].task.obj_num = 6

\* C2 as claimed: the parallel run invokes build_func with the same sequence
\* of (file_num, image_num, obj_num) as the sequential run.
C2_SameSequence ==
    (runNo = 2 /\ pc = "done") => buildLog = prevLog

\* No two files of the run share a name that output.noclobber looks for.
NoNameClash ==
    \/ ~cfg.noclobber
    \/ \A f, g \in 0..(cfg.nfiles - 1) : f # g => FileName(cfg, f) # FileName(cfg, g)

\* C2 (amended): every file built in both runs is built with the same
\* (file_num, image_num, obj_num); every file the sequential run builds the
\* parallel run builds too; and unless output.noclobber meets two files of
\* the same name, both runs build the same set of triples. The order of the
\* parallel invocations is free.
C2_SameNumbering ==
    runNo = 2 =>
        /\ \A i \in 1..Len(buildLog) : \A j \in 1..Len(prevLog) :
              buildLog[i].file_num = prevLog[j].file_num => buildLog[i] = prevLog[j]
        /\ pc = "done" => Range(prevLog) \subseteq Range(buildLog)
        /\ (pc = "done" /\ NoNameClash) => Range(buildLog) = Range(prevLog)

C2_Witness ==
    /\ runNo = 2
    /\ pc = "done"
    /\ Len(prevLog) = 3
    /\ Len(buildLog) = 3
    /\ buildLog # prevLog
    /\ buildLog[1].obj_num > 0

\* The scenario of C3: 3 files of 10 objects each, 2 workers.
ThreeFilesOfTen ==
    /\ cfg.type = "Fits"
    /\ cfg.nfiles = 3
    /\ cfg.nobj = << 10, 10 >>
    /\ cfg.nprocReq = 2

\* C3: in that scenario every build of file f is invoked with obj_num 10 * f
\* and image_num f, and every task a worker holds carries them, whichever
\* worker it is and whatever has been built before.
C3_NumbersIndependentOfWorkers ==
    (ThreeFilesOfTen /\ pc # "start") =>
        /\ nproc = 2
        /\ \A i \in 1..Len(buildLog) :
              /\ buildLog[i].obj_num = 10 * buildLog[i].file_num
              /\ buildLog[i].image_num = buildLog[i].file_num
        /\ \A w \in Workers : p_list[w].st \in { "got", "ready", "dead" } =>
              p_list[w].task.obj_num = 10 * p_list[w].task.file_num

\* File 1 is built before file 0, the two by different workers, and all three
\* files have been built.
C3_Witness ==
    /\ ThreeFilesOfTen
    /\ pc = "done"
    /\ Len(buildLog) = 3
    /\ buildLog[1] = [ file_num |-> 1, image_num |-> 1, obj_num |-> 10 ]
    /\ buildLog[2] = [ file_num |-> 0, image_num |-> 0, obj_num |-> 0 ]
    /\ buildLog[3] = [ file_num |-> 2, image_num |-> 2, obj_num |-> 20 ]
    /\ received[1].proc # received[2].proc

NStopsQueued == Cardinality({ i \in 1..Len(task_queue) : task_queue[i].kind = "STOP" })
NExited == Cardinality({ w \in Workers : p_list[w].st = "exited" })

\* C4: in a parallel run the dispatcher waits for as many results as tasks
\* were put (a skipped file is neither put nor waited for); a 'STOP' exists
\* only after the last of them was taken; when the joins begin one 'STOP' per
\* spawned worker has been put; and Process returns only after every worker
\* has ended and was joined.
C4_DrainStopJoin ==
    (pc # "start" /\ UsesQueue(nproc)) =>
        /\ LoopOver => nfiles_use = Len(putLog)
        /\ \A f \in 0..(Len(taskLog) - 1) :
              (f \in cfg.skip) => \A i \in 1..Len(putLog) : putLog[i] # f
        /\ k = Len(received)
        /\ k <= nfiles_use
        /\ pc \in { "stop", "join", "done" } => k = Len(putLog)
        /\ nstop = NStopsQueued + NExited
        /\ nstop > 0 => pc \in { "stop", "join", "done" }
        /\ pc \in { "join", "done" } => (nstop = nproc /\ NSpawned = nproc)
        /\ njoin > 0 => pc \in { "join", "done" }
        /\ pc = "done" =>
              /\ njoin = nproc
              /\ \A w \in 1..nproc : p_list[w].st = "exited"
              /\ task_queue = << >>

C4_Witness ==
    /\ pc = "done"
    /\ UsesQueue(nproc)
    /\ cfg.skip = { 1 }
    /\ Len(received) = 2
    /\ nstop = 2
    /\ njoin = 2

\* C5 as claimed: once the build of a task has raised in a worker and the run
\* has come to rest, Process has ended by raising, the failed task was
\* reported to the dispatcher, and the results of all the other tasks were
\* received.
C5_FailedTaskSurfaces ==
    ((\E w \in Workers : p_list[w].st = "dead") /\ ~ENABLED Next) =>
        /\ pc = "raised"
        /\ Len(received) >= Len(putLog) - 1

\* C6: with a file-level nproc of at most 1 no worker is spawned and nothing
\* is queued; the builds happen in increasing file_num order, each after the
\* ProcessInput of its file; and a file is numbered only when every file
\* numbered before it has been skipped or built.
C6_SequentialInCaller ==
    (pc # "start" /\ nproc <= 1) =>
        /\ NSpawned = 0
        /\ task_queue = << >>
        /\ putLog = << >>
        /\ done_queue = << >>
        /\ \A i, j \in 1..Len(buildLog) : i < j => buildLog[i].file_num < buildLog[j].file_num
        /\ \A i \in 1..Len(buildLog) : inputLog[buildLog[i].file_num] = 1
        /\ pc \in { "seqInput", "seqBuild" } =>
              /\ cur.file_num = file_num
              /\ Len(taskLog) = file_num + 1
              /\ Len(taskLog) = Len(buildLog) + (cfg.nfiles - nfiles_use) + 1
              /\ inputLog[file_num] = IF pc = "seqBuild" THEN 1 ELSE 0
        /\ pc \in { "loop", "done" } =>
              /\ Len(taskLog) = file_num
              /\ Len(taskLog) = Len(buildLog) + (cfg.nfiles - nfiles_use)

C6_Witness ==
    /\ nproc <= 1
    /\ pc = "seqBuild"
    /\ cur.file_num = 2
    /\ Len(buildLog) = 2

\* ============================================================= CopyConfig
\* A config is a dict of branches, each branch a dict of its own: the model
\* keeps, for every branch of a config, the identity of the dict it refers to
\* (an index into heap), and for every dict who wrote into it last (0: nobody
\* since the job config was made, t: the code working on task t's config).
Branches == { "gal", "psf", "pix", "image", "output", "input" }

\* Lines 66-69: the branches CopyConfig deep-copies.
DeepCopied == { "gal", "psf", "pix", "image" }

\* The branch sets of the job configs tried (Process makes sure of output).
PresentChoices ==
    { Branches, Branches \ { "pix" }, { "gal", "output" } }

RECURSIVE SeqOfSet(_)
SeqOfSet(S) == IF S = {} THEN << >>
               ELSE LET x == CHOOSE y \in S : TRUE IN << x >> \o SeqOfSet(S \ { x })

\* The position of branch b among the branches copied, for the fresh identity.
CopyOrder(bs) == SeqOfSet(bs)
IndexIn(sq, x) == CHOOSE i \in 1..Len(sq) : sq[i] = x

\* Lines 64-70: copy.copy(config), then a deepcopy of gal, psf, pix and image
\* where present. The result is the new config with the heap holding the new
\* dicts, each with the content of the dict it copies.
CopyConfig(config, hp) ==
    LET fresh == CopyOrder(DOMAIN config \cap DeepCopied)
        config1 == [ b \in DOMAIN config |->
                        IF b \in DeepCopied THEN Len(hp) + IndexIn(fresh, b)
                        ELSE config[b] ]
    IN  [ config |-> config1,
          heap |-> hp \o [ i \in 1..Len(fresh) |-> hp[config[fresh[i]]] ] ]

InitCopy ==
    /\ ProcIdle
    /\ FitsIdle
    /\ CubeIdle
    /\ MultiIdle
    /\ ExtrasIdle
    /\ InputIdle
    /\ NObjIdle
    /\ \E present \in PresentChoices :
          LET order == SeqOfSet(present)
          IN  /\ jobCfg = [ b \in present |-> IndexIn(order, b) ]
              /\ heap = [ i \in 1..Len(order) |-> 0 ]
    /\ taskCfg = << >>

CopyFrame == UNCHANGED << procVars, fitsVars, cubeVars, multiVars, extraVars, inputVars, nobjVars >>

\* Line 330: kwargs['config'] = CopyConfig(config), for the next file.
MakeTaskConfig ==
    /\ CopyFrame
    /\ Len(taskCfg) < MaxFiles
    /\ LET r == CopyConfig(jobCfg, heap)
       IN  /\ taskCfg' = Append(taskCfg, r.config)
           /\ heap' = r.heap
    /\ jobCfg' = jobCfg

\* Code working on task t's config writes into the dict of its branch b.
WriteThrough(t, b) ==
    /\ b \in DOMAIN taskCfg[t]
    /\ heap' = [ heap EXCEPT ![taskCfg[t][b]] = t ]
    /\ UNCHANGED << jobCfg, taskCfg >>

\* Code of Process working on task t's config writes into its output dict:
\* nobj_func(kwargs['config'], ...) sets config['output']['nimages'] from the
\* input catalog (lines 770 and 792), and the loop sets
\* output[extra_key]['type'] = 'default' (lines 362-364), output being
\* kwargs['config']['output'] (line 332).
TaskWritesOutput(t) ==
    /\ CopyFrame
    /\ WriteThrough(t, "output")

\* The build of task t caches values in the gal, psf, pix and image dicts of
\* its config (the docstring of CopyConfig, lines 58-62).
BuildCaches(t, b) ==
    /\ CopyFrame
    /\ b \in DeepCopied
    /\ WriteThrough(t, b)

NextCopy ==
    \/ MakeTaskConfig
    \/ \E t \in 1..Len(taskCfg) : TaskWritesOutput(t)
    \/ \E t \in 1..Len(taskCfg) : \E b \in DeepCopied : BuildCaches(t, b)

SpecCopy == InitCopy /\ [][NextCopy]_vars

\* ----------------------------------------------------- claims: CopyConfig
IndependentIn(bs) ==
    /\ \A b \in bs \cap DOMAIN jobCfg : heap[jobCfg[b]] = 0
    /\ \A t \in 1..Len(taskCfg) : \A b \in bs \cap DOMAIN taskCfg[t] :
          heap[taskCfg[t][b]] \in { 0, t }

\* C7 as claimed: what is written through a task's config into its gal, psf,
\* pix, image or output branch is seen neither through the job config nor
\* through the config of another task.
C7_TaskConfigsIndependent ==
    IndependentIn({ "gal", "psf", "pix", "image", "output" })

\* =============================================================== BuildFits
MaxHdu == 3

\* psf_hdu, weight_hdu, badpix_hdu: None or an integer.
HduChoices == { None } \cup ((-1)..MaxHdu)

\* The images BuildImage returns: ( main, psf, weight, badpix ) (line 518).
Layers == << "main", "psf", "weight", "badpix" >>

\* The request of extra layer i (2: psf, 3: weight, 4: badpix) when hdus is the
\* dict so far: lines 482-489, 491-498, 500-507. An invalid or duplicate
\* number raises; what is raised is what evaluating the raise statement
\* gives: "..."%pdf_hdu names an undefined variable (line 486), and
\* "..."&weight_hdu applies & to a str and an int (lines 495, 504).
RaisedBy(i) == IF i = 2 THEN "NameError" ELSE "TypeError"

HduInvalid(hdu, hdus) == hdu <= 0 \/ hdu \in DOMAIN hdus

ExtraRequest(i, file_name, hdu, hdus) ==
    IF file_name \/ Truthy(hdu)
    THEN IF Truthy(hdu)
         THEN IF HduInvalid(hdu, hdus)
              THEN [ make |-> TRUE, hdus |-> hdus, error |-> RaisedBy(i) ]
              ELSE [ make |-> TRUE, error |-> "none",
                     hdus |-> [ h \in DOMAIN hdus \cup { hdu } |->
                                   IF h = hdu THEN i - 1 ELSE hdus[h] ] ]
         ELSE [ make |-> TRUE, hdus |-> hdus, error |-> "none" ]
    ELSE [ make |-> FALSE, hdus |-> hdus, error |-> "none" ]

\* Lines 509-511: for h in range(len(hdus.keys())): h must be a key.
LayoutComplete_oneShort(hdus) ==
    \A h \in 0..(Cardinality(DOMAIN hdus) - 2) : h \in DOMAIN hdus

LayoutComplete(hdus) ==
    \A h \in 0..(Cardinality(DOMAIN hdus) - 1) : h \in DOMAIN hdus

FitsCall(ph, wh, bh, pf, wf, bf) ==
    [ pc |-> "psf", hdu |-> << None, ph, wh, bh >>,
      file_name |-> << TRUE, pf, wf, bf >>,
      hdus |-> (0 :> 0), make |-> << TRUE, FALSE, FALSE, FALSE >>,
      error |-> "none", built |-> FALSE, hdulist |-> << >>, written |-> {} ]

InitFits ==
    /\ ProcIdle
    /\ CopyIdle
    /\ CubeIdle
    /\ MultiIdle
    /\ ExtrasIdle
    /\ InputIdle
    /\ NObjIdle
    /\ \E ph, wh, bh \in HduChoices : \E pf, wf, bf \in BOOLEAN :
          fits = FitsCall(ph, wh, bh, pf, wf, bf)

FitsFrame == UNCHANGED << procVars, copyVars, cubeVars, multiVars, extraVars, inputVars, nobjVars >>

FitsRequest(i, here, then) ==
    /\ FitsFrame
    /\ fits.pc = here
    /\ LET r == ExtraRequest(i, fits.file_name[i], fits.hdu[i], fits.hdus)
       IN  fits' = [ fits EXCEPT !.make[i] = r.make, !.hdus = r.hdus,
                                 !.error = r.error,
                                 !.pc = IF r.error = "none" THEN then ELSE "raised" ]

\* Lines 482-489.
FitsPsf == FitsRequest(2, "psf", "weight")

\* Lines 491-498.
FitsWeight == FitsRequest(3, "weight", "badpix")

\* Lines 500-507.
FitsBadpix == FitsRequest(4, "badpix", "layout")

\* Lines 509-511.
FitsLayout ==
    /\ FitsFrame
    /\ fits.pc = "layout"
    /\ fits' = IF LayoutComplete(fits.hdus)
               THEN [ fits EXCEPT !.pc = "build" ]
               ELSE [ fits EXCEPT !.pc = "raised", !.error = "ValueError" ]

\* Lines 513-518: galsim.config.BuildImage.
FitsBuildImage ==
    /\ FitsFrame
    /\ fits.pc = "build"
    /\ fits' = [ fits EXCEPT !.pc = "write", !.built = TRUE ]

\* Lines 520-527: the hdulist, with the assert of line 522, and writeMulti.
FitsWriteMulti ==
    /\ FitsFrame
    /\ fits.pc = "write"
    /\ LET n == Cardinality(DOMAIN fits.hdus)
       IN  fits' = IF \A h \in 0..(n - 1) : h \in DOMAIN fits.hdus
                   THEN [ fits EXCEPT !.pc = "extra",
                             !.hdulist = [ j \in 1..n |-> Layers[fits.hdus[j - 1] + 1] ],
                             !.written = @ \cup { "main" } ]
                   ELSE [ fits EXCEPT !.pc = "raised", !.error = "AssertionError" ]

\* Lines 534-550: the extra files, and the return.
FitsWriteExtra ==
    /\ FitsFrame
    /\ fits.pc = "extra"
    /\ fits' = [ fits EXCEPT !.pc = "return",
                    !.written = @ \cup { Layers[i] : i \in { j \in 2..4 : fits.file_name[j] } } ]

NextFits ==
    \/ FitsPsf
    \/ FitsWeight
    \/ FitsBadpix
    \/ FitsLayout
    \/ FitsBuildImage
    \/ FitsWriteMulti
    \/ FitsWriteExtra

SpecFits == InitFits /\ [][NextFits]_vars

\* ------------------------------------------------------ claims: BuildFits
FitsEnded == fits.pc \in { "return", "raised" }

\* The hdu numbers asked for.
Requested == { fits.hdu[i] : i \in { j \in 2..4 : fits.hdu[j] # None } }

\* Every number asked for is positive and asked for once.
PositiveAndDistinct ==
    /\ \A i \in 2..4 : fits.hdu[i] # None => fits.hdu[i] > 0
    /\ \A i, j \in 2..4 : (i # j /\ fits.hdu[i] # None) => fits.hdu[i] # fits.hdu[j]

\* With the primary 0 the numbers are 0..k.
Contiguous == Requested \cup { 0 } = 0..Cardinality(Requested)

\* C8: for positive, distinct hdu numbers BuildFits returns, with every layer
\* at the hdu asked for, exactly when the numbers with the primary 0 are
\* 0..k; when they leave a gap it raises the ValueError of the layout check
\* before BuildImage, and writes nothing.
C8_ContiguousLayout ==
    (FitsEnded /\ PositiveAndDistinct) =>
        IF Contiguous
        THEN /\ fits.pc = "return"
             /\ fits.error = "none"
             /\ Len(fits.hdulist) = Cardinality(Requested) + 1
             /\ fits.hdulist[1] = "main"
             /\ \A i \in 2..4 : fits.hdu[i] # None =>
                   fits.hdulist[fits.hdu[i] + 1] = Layers[i]
             /\ "main" \in fits.written
        ELSE /\ fits.pc = "raised"
             /\ fits.error = "ValueError"
             /\ ~fits.built
             /\ fits.written = {}

\* psf_hdu = 1 and weight_hdu = 3: the gap at 2 is refused.
C8_Witness ==
    /\ fits.hdu = << None, 1, 3, None >>
    /\ fits.pc = "raised"
    /\ fits.error = "ValueError"
    /\ fits.written = {}

\* Some number asked for is not positive, or is asked for twice.
BadHduRequest ==
    \/ \E i \in 2..4 : fits.hdu[i] # None /\ fits.hdu[i] <= 0
    \/ \E i, j \in 2..4 : i < j /\ fits.hdu[i] # None /\ fits.hdu[i] = fits.hdu[j]

\* C9 as claimed, in its weakest reading (any exception counts as the
\* rejection): a request with an hdu number that is not positive, or that
\* another layer has already, does not return.
C9_RejectsBadHdu ==
    (FitsEnded /\ BadHduRequest) => fits.pc = "raised"

\* =========================================================== BuildDataCube
MaxCube == 3

\* The shapes (numpy: rows, columns = y, x) an image can have by its own
\* configuration.
Shapes == { << 50, 60 >>, << 32, 32 >> }

\* The image size a config carries: config['image_xsize'], config['image_ysize'].
NoSize == [ x |-> None, y |-> None ]

\* What BuildDataCube is called with: nimages, nproc, the numbers of its first
\* image, for each image of the file its shape by its own configuration, and
\* the size config carries already (none when Process makes the call, that
\* of an earlier cube when a caller passes the same dict again).
CubeCalls ==
    UNION { { [ nimages |-> n, nproc |-> np, image_num |-> st[1], obj_num |-> st[2],
                nominal |-> nom, nobj |-> no, config |-> sz ] :
                np \in 1..2, st \in { << 0, 0 >>, << 3, 7 >> },
                nom \in [ 1..n -> Shapes ], no \in NobjChoices,
                sz \in { NoSize, [ x |-> 40, y |-> 30 ] } } :
            n \in 1..MaxCube }

\* galsim.config.BuildImage: the shape of the image built from a config; a
\* config that carries image_xsize and image_ysize gets that size, whatever
\* the image's own configuration says.
RenderShape(size, nominal) ==
    IF size.x # None /\ size.y # None THEN << size.y, size.x >> ELSE nominal

\* Line 695: image_ysize, image_xsize = all_images[0].array.shape.
ShapeToSize_swapped(shape) == [ x |-> shape[1], y |-> shape[2] ]

ShapeToSize(shape) == [ x |-> shape[2], y |-> shape[1] ]

\* BuildImages has not been called.
NoRequest == [ n |-> 0 ]

\* Lines 715-720: what BuildImages is called with for the call c, obj being
\* obj_num after line 687.
\* (The mutant passes the numbers BuildDataCube was called with.)
CubeImagesRequest_sameNumbers(c, obj) ==
    [ n |-> c.nimages - 1, image_num |-> c.image_num, obj_num |-> c.obj_num ]

CubeImagesRequest(c, obj) ==
    [ n |-> c.nimages - 1, image_num |-> c.image_num + 1, obj_num |-> obj ]

\* Lines 705-713: no more processes than images left.
CubeNproc(np, nimages) == IF np > nimages - 1 THEN nimages - 1 ELSE np

InitCube ==
    /\ ProcIdle
    /\ CopyIdle
    /\ FitsIdle
    /\ MultiIdle
    /\ ExtrasIdle
    /\ InputIdle
    /\ NObjIdle
    /\ \E c \in CubeCalls :
          cube = [ pc |-> "first", call |-> c, config |-> c.config,
                   obj_num |-> c.obj_num, nproc |-> c.nproc,
                   request |-> NoRequest,
                   built |-> << >>, pending |-> {}, written |-> FALSE ]

CubeFrame == UNCHANGED << procVars, copyVars, fitsVars, multiVars, extraVars, inputVars, nobjVars >>

\* One call of BuildImage as the model records it: the numbers, the size the
\* config it was given carries, and the shape that came out.
ImageBuilt(c, j, obj, size) ==
    [ image_num |-> c.image_num + j - 1, obj_num |-> obj, carried |-> size,
      shape |-> RenderShape(size, c.nominal[j]) ]

\* Lines 673-687: config1 = CopyConfig(config); the first image is built from
\* config1; obj_num += GetNObjForImage(config, image_num).
CubeFirstImage ==
    /\ CubeFrame
    /\ cube.pc = "first"
    /\ cube' = [ cube EXCEPT
                    !.pc = "record",
                    !.built = << ImageBuilt(cube.call, 1, cube.obj_num, cube.config) >>,
                    !.obj_num = @ + GetNObjForImage(cube.call, cube.call.image_num) ]

\* Lines 694-702: the size of the first image goes into config.
CubeRecordSize ==
    /\ CubeFrame
    /\ cube.pc = "record"
    /\ cube' = [ cube EXCEPT
                    !.pc = IF cube.call.nimages > 1 THEN "rest" ELSE "write",
                    !.config = ShapeToSize(cube.built[1].shape) ]

\* Lines 704-720: BuildImages(nimages-1, config=config, nproc=nproc,
\* image_num=image_num+1, obj_num=obj_num, ...) is called.
CubeCallBuildImages ==
    /\ CubeFrame
    /\ cube.pc = "rest"
    /\ cube' = [ cube EXCEPT
                    !.pc = "images",
                    !.nproc = CubeNproc(cube.nproc, cube.call.nimages),
                    !.request = CubeImagesRequest(cube.call, cube.obj_num),
                    !.pending = 2..(CubeImagesRequest(cube.call, cube.obj_num).n + 1) ]

\* The object number of image j of the file, j >= 2, in BuildImages: obj_num
\* and the objects of the images before it.
RestObjNum(c, first, j) ==
    first + SumSeq([ i \in 1..(j - 2) |-> GetNObjForImage(c, c.image_num + i) ])

\* galsim.config.BuildImages: the images left are built from config, one
\* after the other with nproc = 1 and in any order with more processes,
\* numbered on from the image_num and obj_num of the call.
CubeBuildOne(j) ==
    /\ CubeFrame
    /\ cube.pc = "images"
    /\ j \in cube.pending
    /\ cube.nproc <= 1 => \A i \in cube.pending : j <= i
    /\ cube' = [ cube EXCEPT
                    !.pending = @ \ { j },
                    !.built = Append(@,
                        [ ImageBuilt(cube.call, j,
                                     RestObjNum(cube.call, cube.request.obj_num, j),
                                     cube.config)
                            EXCEPT !.image_num = cube.request.image_num + j - 2 ]) ]

\* Lines 722-747: BuildImages has returned; the cube is written.
CubeWrite ==
    /\ CubeFrame
    /\ cube.pc \in { "images", "write" }
    /\ cube.pending = {}
    /\ cube' = [ cube EXCEPT !.pc = "return", !.written = TRUE ]

NextCube ==
    \/ CubeFirstImage
    \/ CubeRecordSize
    \/ CubeCallBuildImages
    \/ \E j \in 2..MaxCube : CubeBuildOne(j)
    \/ CubeWrite

SpecCube == InitCube /\ [][NextCube]_vars

\* -------------------------------------------------- claims: BuildDataCube
\* C10: the first build of BuildDataCube is that of the first image, from a
\* copy of the config as the caller passed it; no other image is asked for before it has
\* returned and its size (x = columns, y = rows of its array) is in config;
\* every later image is built from a config that carries exactly that size and
\* comes out with the shape of the first image.
C10_FirstImageFixesSize ==
    /\ (cube.pc = "first") => (cube.built = << >> /\ cube.pending = {})
    /\ (cube.pc # "idle" /\ cube.pc # "first") =>
          /\ Len(cube.built) >= 1
          /\ cube.built[1].image_num = cube.call.image_num
          /\ cube.built[1].carried = cube.call.config
          /\ cube.built[1].shape = RenderShape(cube.call.config, cube.call.nominal[1])
    /\ (cube.pc = "record") => (Len(cube.built) = 1 /\ cube.pending = {})
    /\ (cube.pending # {} \/ cube.pc \in { "rest", "images", "write", "return" }) =>
          /\ cube.config.x = cube.built[1].shape[2]
          /\ cube.config.y = cube.built[1].shape[1]
    /\ \A i \in 2..Len(cube.built) :
          /\ cube.built[i].carried.x = cube.built[1].shape[2]
          /\ cube.built[i].carried.y = cube.built[1].shape[1]
          /\ cube.built[i].shape = cube.built[1].shape

\* A cube of three images whose first image is 50 rows by 60 columns and
\* whose other images are 32 by 32 by their own configuration, the third
\* built before the second.
C10_Witness ==
    /\ cube.pc = "return"
    /\ cube.call.config = NoSize
    /\ cube.call.nimages = 3
    /\ cube.call.nominal = << << 50, 60 >>, << 32, 32 >>, << 32, 32 >> >>
    /\ Len(cube.built) = 3
    /\ cube.built[2].image_num > cube.built[3].image_num
    /\ \A i \in 1..3 : cube.built[i].shape = << 50, 60 >>

\* ========================================================== BuildMultiFits
\* BuildMultiFits takes the arguments of BuildDataCube (lines 553-555).
MultiCalls == CubeCalls

\* Lines 592-600: no more processes than images.
MultiNproc(np, nimages) == IF np > nimages THEN nimages ELSE np

\* Lines 602-604: the images BuildImages is asked for, BuildImages(nimages,
\* ..., image_num=image_num, obj_num=obj_num): all of the file.
MultiRequested_rest(nimages) == 2..nimages

MultiRequested(nimages) == 1..nimages

InitMulti ==
    /\ ProcIdle
    /\ CopyIdle
    /\ FitsIdle
    /\ CubeIdle
    /\ ExtrasIdle
    /\ InputIdle
    /\ NObjIdle
    /\ \E c \in MultiCalls :
          mfits = [ pc |-> "start", call |-> c, config |-> c.config,
                    nproc |-> c.nproc, built |-> << >>, pending |-> {},
                    written |-> FALSE ]

MultiFrame == UNCHANGED << procVars, copyVars, fitsVars, cubeVars, extraVars, inputVars, nobjVars >>

\* Lines 588-607: nimages is read, nproc reduced, BuildImages is called with
\* config as it was passed in.
MultiCallBuildImages ==
    /\ MultiFrame
    /\ mfits.pc = "start"
    /\ mfits' = [ mfits EXCEPT
                    !.pc = "images",
                    !.nproc = MultiNproc(mfits.nproc, mfits.call.nimages),
                    !.pending = MultiRequested(mfits.call.nimages) ]

\* The object number of image j of the file in BuildImages: obj_num and the
\* objects of the images before it.
MultiObjNum(c, j) ==
    c.obj_num + SumSeq([ i \in 1..(j - 1) |-> GetNObjForImage(c, c.image_num + i - 1) ])

\* galsim.config.BuildImages: the images are built from config, one after
\* the other with nproc = 1 and in any order with more processes.
MultiBuildOne(j) ==
    /\ MultiFrame
    /\ mfits.pc = "images"
    /\ j \in mfits.pending
    /\ mfits.nproc <= 1 => \A i \in mfits.pending : j <= i
    /\ mfits' = [ mfits EXCEPT
                    !.pending = @ \ { j },
                    !.built = Append(@, ImageBuilt(mfits.call, j,
                                        MultiObjNum(mfits.call, j), mfits.config)) ]

\* Lines 609-635: BuildImages has returned; the file is written.
MultiWrite ==
    /\ MultiFrame
    /\ mfits.pc = "images"
    /\ mfits.pending = {}
    /\ mfits' = [ mfits EXCEPT !.pc = "return", !.written = TRUE ]

NextMulti ==
    \/ MultiCallBuildImages
    \/ \E j \in 1..MaxCube : MultiBuildOne(j)
    \/ MultiWrite

SpecMulti == InitMulti /\ [][NextMulti]_vars

\* ------------------------------------------------- claims: BuildMultiFits
\* The images of the file built so far, by their place in the file.
MultiBuiltPlaces ==
    { mfits.built[i].image_num - mfits.call.image_num + 1 : i \in 1..Len(mfits.built) }

\* C11 as claimed: in BuildMultiFits the first build is that of the first
\* image, no other image is asked for before it has returned, and every
\* later image is built from a config that carries the first image's size.
C11_FirstImageFixesSize ==
    /\ (mfits.pc # "idle" /\ mfits.built = << >>) => mfits.pending \subseteq { 1 }
    /\ Len(mfits.built) >= 1 => mfits.built[1].image_num = mfits.call.image_num
    /\ \A i \in 2..Len(mfits.built) :
          /\ mfits.built[i].carried = ShapeToSize(mfits.built[1].shape)
          /\ mfits.built[i].shape = mfits.built[1].shape

\* C11, amended: BuildMultiFits asks for all nimages images of the file in
\* one BuildImages call, with no more processes than images, and never
\* records a size: every image, the first included, is built from the
\* config as the caller passed it and has the shape that config gives it.
C11_AllImagesFromCallersConfig ==
    mfits.pc # "idle" =>
       /\ mfits.config = mfits.call.config
       /\ mfits.pc # "start" =>
             /\ mfits.nproc <= mfits.call.nimages
             /\ mfits.pending \cup MultiBuiltPlaces = 1..mfits.call.nimages
             /\ mfits.pending \cap MultiBuiltPlaces = {}
       /\ \A i \in 1..Len(mfits.built) :
             LET j == mfits.built[i].image_num - mfits.call.image_num + 1
             IN  /\ mfits.built[i].carried = mfits.call.config
                 /\ mfits.built[i].shape =
                       RenderShape(mfits.call.config, mfits.call.nominal[j])

\* A file of three images written with the second image built before the
\* first, the first 50 by 60 and the second 32 by 32.
C11_Witness ==
    /\ mfits.pc = "return"
    /\ mfits.call.config = NoSize
    /\ mfits.call.nimages = 3
    /\ Len(mfits.built) = 3
    /\ mfits.built[1].image_num = mfits.call.image_num + 1
    /\ mfits.built[1].shape = << 32, 32 >>
    /\ mfits.built[2].image_num = mfits.call.image_num
    /\ mfits.built[2].shape = << 50, 60 >>

\* ================================================ extra files of Process
MaxExtraFiles == 3

\* Line 288: extra_keys.
extra_keys == << "psf", "weight", "badpix" >>

\* What output says for one extra layer: nothing (the key is not in
\* output), an hdu, or a file_name, which evaluates to the same path for every
\* file ("path1", "path2") or to a path of its own for each file ("perfile").
ExtraPatterns == { "absent", "hdu", "path1", "path2", "perfile" }

\* Lines 384-395: f, the path the file_name of a layer resolves to for file
\* file_num.
ExtraPath(pattern, fnum) ==
    CASE pattern = "path1" -> 1
      [] pattern = "path2" -> 2
      [] pattern = "perfile" -> 10 + fnum
      [] OTHER -> None

\* The output type, nimages and objects per image the runs count with
\* (lines 335-341).
ExtraCounts ==
    { [ type |-> "Fits", nimages |-> 1, nobj |-> << 1, 2 >> ],
      [ type |-> "MultiFits", nimages |-> MaxImages, nobj |-> << 1, 2 >> ] }

\* The runs tried: the number of files, what output says for each layer, the
\* files the loop skips (lines 343-357) before it looks at the extras, and
\* what the files count.
ExtraRuns ==
    UNION { { [ nfiles |-> n, output |-> o, skip |-> sk, counts |-> c ] :
                o \in [ { "psf", "weight", "badpix" } -> ExtraPatterns ],
                sk \in { {} } \cup { { f } : f \in 0..(n - 1) },
                c \in ExtraCounts } :
            n \in 2..MaxExtraFiles }

\* Lines 289-291 leave the loop variable key at the last of extra_keys, and
\* so does the list comprehension of line 360; lines 400 and 405 index
\* last_file_name with key, not with extra_key.
KeyAtLine400(extra_key) == extra_keys[Len(extra_keys)]

NoExtraKwargs == [ l \in { "psf", "weight", "badpix" } |-> None ]

InitExtras ==
    /\ ProcIdle
    /\ CopyIdle
    /\ FitsIdle
    /\ CubeIdle
    /\ MultiIdle
    /\ InputIdle
    /\ NObjIdle
    /\ \E r \in ExtraRuns :
          extras = [ pc |-> "file", run |-> r, file_num |-> 0, layer |-> 1,
                     image_num |-> 0, obj_num |-> 0,
                     start |-> [ image_num |-> 0, obj_num |-> 0 ],
                     last_file_name |-> NoExtraKwargs,
                     kwargs |-> NoExtraKwargs,
                     given |-> << >>, writes |-> << >> ]

ExtrasFrame == UNCHANGED << procVars, copyVars, fitsVars, cubeVars, multiVars, inputVars, nobjVars >>

\* Lines 340-357: a file that is skipped goes no further than the counters
\* (continue); next holds image_num and obj_num after lines 340-341.
\* (The mutant skips the file before the counters are advanced.)
ExtrasSkip_beforeCounting(st, next) == [ st EXCEPT !.file_num = @ + 1 ]

ExtrasSkip(st, next) ==
    [ st EXCEPT !.file_num = @ + 1,
                !.image_num = next.image_num, !.obj_num = next.obj_num ]

\* Lines 294-357: the next file; kwargs is made anew with the image_num and
\* obj_num reached (lines 322-326), the counters are advanced by what
\* nobj_func returns (lines 335-341), and a file that is skipped goes no
\* further.
ExtrasNextFile ==
    /\ ExtrasFrame
    /\ extras.pc = "file"
    /\ extras.file_num < extras.run.nfiles
    /\ LET here == [ image_num |-> extras.image_num, obj_num |-> extras.obj_num ]
           nobj == nobj_func(extras.run.counts, extras.file_num, extras.image_num)
           next == Advance(here, nobj)
       IN  IF extras.file_num \in extras.run.skip
           THEN extras' = ExtrasSkip(extras, next)
           ELSE extras' = [ extras EXCEPT !.pc = "extras", !.layer = 1,
                                          !.kwargs = NoExtraKwargs,
                                          !.start = here,
                                          !.image_num = next.image_num,
                                          !.obj_num = next.obj_num ]

\* Lines 360-407: one pass of the loop over the extra keys.
ExtrasLayer ==
    /\ ExtrasFrame
    /\ extras.pc = "extras"
    /\ extras.layer <= Len(extra_keys)
    /\ LET extra_key == extra_keys[extras.layer]
           pattern == extras.run.output[extra_key]
           f == ExtraPath(pattern, extras.file_num)
           key == KeyAtLine400(extra_key)
       IN  IF f # None /\ extras.last_file_name[key] # f
           THEN extras' = [ extras EXCEPT
                               !.layer = @ + 1,
                               !.kwargs[extra_key] = f,
                               !.last_file_name[key] = f ]
           ELSE extras' = [ extras EXCEPT !.layer = @ + 1 ]

\* Lines 409-421: the file is built (or its task queued) with kwargs; the
\* build function writes each extra file it is given a name for (lines
\* 534-547, 618-631, 731-744).
ExtrasBuild ==
    /\ ExtrasFrame
    /\ extras.pc = "extras"
    /\ extras.layer > Len(extra_keys)
    /\ extras' = [ extras EXCEPT
                      !.pc = "file",
                      !.file_num = @ + 1,
                      !.given = Append(@, [ file_num |-> extras.file_num,
                                            image_num |-> extras.start.image_num,
                                            obj_num |-> extras.start.obj_num,
                                            last_file_name |-> extras.last_file_name,
                                            kwargs |-> extras.kwargs ]),
                      !.writes = @ \o SelectSeq(
                                    [ i \in 1..Len(extra_keys) |->
                                        [ layer |-> extra_keys[i],
                                          path |-> extras.kwargs[extra_keys[i]] ] ],
                                    LAMBDA w : w.path # None) ]

\* Line 294: the loop is over.
ExtrasDone ==
    /\ ExtrasFrame
    /\ extras.pc = "file"
    /\ extras.file_num = extras.run.nfiles
    /\ extras' = [ extras EXCEPT !.pc = "done" ]

NextExtras ==
    \/ ExtrasNextFile
    \/ ExtrasLayer
    \/ ExtrasBuild
    \/ ExtrasDone

SpecExtras == InitExtras /\ [][NextExtras]_vars

\* --------------------------------------------------- claims: extra files
\* The path layer l resolves to for the i-th file that was not skipped.
RequestedPath(i, l) == ExtraPath(extras.run.output[l], extras.given[i].file_num)

\* C12 as claimed: for each layer, when two consecutive non-skipped files
\* resolve the same path for it, the second file's task is not given that
\* file name (one write to the path); and a task is denied a layer's file
\* name only when the file before resolved the same path for that layer.
C12_OneWritePerRepeatedPath ==
    extras.pc # "idle" =>
       \A l \in { "psf", "weight", "badpix" } :
          /\ \A i \in 2..Len(extras.given) :
                (RequestedPath(i, l) # None /\ RequestedPath(i, l) = RequestedPath(i - 1, l))
                   => extras.given[i].kwargs[l] = None
          /\ \A i \in 1..Len(extras.given) :
                (RequestedPath(i, l) # None /\ extras.given[i].kwargs[l] = None)
                   => (i > 1 /\ RequestedPath(i - 1, l) = RequestedPath(i, l))

\* ================================================= ProcessInput (input.py)
MaxCalls == 2

\* Lines 34, 396-397: valid_input_types, the registered input types with
\* their loaders, in the order the dict is iterated.
valid_input_types == << "catalog", "dict" >>

\* Lines 332-336, 396-397: the loader of a registered type.
Loader(key) ==
    IF key = "catalog"
    THEN [ types |-> { "Catalog" }, has_nobj |-> TRUE, file_scope |-> FALSE ]
    ELSE [ types |-> { "Dict" }, has_nobj |-> FALSE, file_scope |-> TRUE ]

\* The value types that can have a cached current value: those of the
\* loaders (lines 452-453) and one that no input type lists.
ValueTypes == { "Catalog", "Dict", "Random" }

\* config['input'] as the model has it: for each key the number of its fields
\* (lines 71-73 make every entry a list); "bogus" is a key that is no
\* registered input type.
InputSections ==
    { [ ky \in { "catalog" } |-> 1 ],
      [ ky \in { "dict" } |-> 1 ],
      [ ky \in { "catalog", "dict" } |-> IF ky = "catalog" THEN 2 ELSE 1 ],
      [ ky \in { "catalog", "bogus" } |-> 1 ],
      [ ky \in { "bogus" } |-> 1 ],
      [ ky \in {} |-> 1 ] }

\* image.nproc and output.nproc as given in the config (None: not given), and
\* whether the config is that of a worker ('current_nproc' in config).
NprocSettings ==
    { [ image |-> None, output |-> None, current_nproc |-> FALSE ],
      [ image |-> None, output |-> 1, current_nproc |-> FALSE ],
      [ image |-> None, output |-> 2, current_nproc |-> FALSE ],
      [ image |-> 2, output |-> 1, current_nproc |-> FALSE ],
      [ image |-> None, output |-> -1, current_nproc |-> FALSE ],
      [ image |-> None, output |-> 2, current_nproc |-> TRUE ] }

\* The configs ProcessInput is tried on; has_input: 'input' in config.
InputConfigs ==
    { [ has_input |-> TRUE, input |-> sec, nproc |-> np ] :
          sec \in InputSections, np \in NprocSettings }
    \cup { [ has_input |-> FALSE, input |-> [ ky \in {} |-> 1 ],
             nproc |-> [ image |-> None, output |-> 2, current_nproc |-> FALSE ] ] }

\* Line 67: all_keys, the registered types that are in config['input'].
all_keys(c) == SelectSeq(valid_input_types, LAMBDA key : key \in DOMAIN c.input)

\* The slots of key: one for each of its fields, tagged key + str(i)
\* (lines 111-113, 138-141).
SlotsOfKey(c, key) == [ j \in 1..c.input[key] |-> [ key |-> key, i |-> j - 1 ] ]

RECURSIVE ConcatAll(_)
ConcatAll(sq) == IF sq = << >> THEN << >> ELSE Head(sq) \o ConcatAll(Tail(sq))

\* Lines 128, 138: the slots in the order the two loops visit them.
Slots(c) ==
    LET keys == all_keys(c)
    IN  ConcatAll([ n \in 1..Len(keys) |-> SlotsOfKey(c, keys[n]) ])

SlotSet(c) == Range(Slots(c))

\* input_objs[i] is None; input_objs_safe[i] is None, True or False.
NoObj == [ id |-> 0, via |-> "none" ]

EmptySlot == [ obj |-> NoObj, safe |-> "None" ]

\* Lines 94-100: use_manager.
use_manager(c, file_scope_only) ==
    /\ ~c.nproc.current_nproc
    /\ ~file_scope_only
    /\ \/ (c.nproc.image # None /\ c.nproc.image # 1)
       \/ (c.nproc.output # None /\ c.nproc.output # 1)

\* Line 145: the slot holds an object and its safe flag is true.
BuiltSafe_never(slot) == FALSE

BuiltSafe_anyObject(slot) == slot.obj # NoObj

BuiltSafe(slot) == slot.obj # NoObj /\ slot.safe = "True"

\* Lines 202-203: the keys CheckAllParams is told to ignore.
IgnoredKeys_allPresent(c) == DOMAIN c.input

IgnoredKeys(c) == Range(valid_input_types)

InitInput ==
    /\ ProcIdle
    /\ CopyIdle
    /\ FitsIdle
    /\ CubeIdle
    /\ MultiIdle
    /\ ExtrasIdle
    /\ NObjIdle
    /\ \E c \in InputConfigs :
          inp = [ pc |-> "ready", cfg |-> c, file_num |-> None,
                  manager |-> "absent", has_objs |-> FALSE,
                  objs |-> [ sl \in SlotSet(c) |-> EmptySlot ],
                  nctor |-> [ sl \in SlotSet(c) |-> 0 ],
                  cached |-> {},
                  call |-> [ file_num |-> 0, file_scope_only |-> FALSE,
                             safe_only |-> FALSE ],
                  use_manager |-> FALSE, start_failed |-> FALSE,
                  new_file |-> FALSE, pos |-> 1, log |-> << >>, error |-> "none", ncalls |-> 0 ]

InputFrame ==
    UNCHANGED << procVars, copyVars, fitsVars, cubeVars, multiVars, extraVars, nobjVars >>

\* Between two calls of ProcessInput the building of values and objects
\* caches current values in the config, of every value type. (The log is
\* that of the call under way or just over; it is dropped here.)
InputCacheValues ==
    /\ InputFrame
    /\ inp.pc \in { "ready", "returned" }
    /\ inp.cached # ValueTypes
    /\ inp' = [ inp EXCEPT !.cached = ValueTypes, !.log = << >> ]

\* Lines 60-124: the call ProcessInput(config, file_num, file_scope_only,
\* safe_only) up to the loop over the keys. started says whether
\* config['input_manager'].start() (line 117) returns; line 116 has put the
\* manager into config before.
InputCall(fnum, fso, so, started) ==
    /\ InputFrame
    /\ inp.pc \in { "ready", "returned", "raised" }
    /\ inp.ncalls < MaxCalls
    /\ LET um == use_manager(inp.cfg, fso)
           starts == inp.cfg.has_input /\ um /\ inp.manager = "absent"
           base == [ inp EXCEPT
                       !.file_num = fnum,
                       !.call = [ file_num |-> fnum, file_scope_only |-> fso,
                                  safe_only |-> so ],
                       !.ncalls = @ + 1,
                       !.log = << >>,
                       !.error = "none",
                       !.pos = 1,
                       !.start_failed = FALSE,
                       !.new_file = (inp.file_num # None /\ inp.file_num # fnum),
                       !.use_manager = inp.cfg.has_input /\ um ]
       IN  /\ ~starts => started
           /\ IF ~inp.cfg.has_input
              THEN inp' = [ base EXCEPT !.pc = "returned" ]
              ELSE IF starts /\ ~started
              THEN inp' = [ base EXCEPT !.pc = "raised", !.manager = "failed",
                                        !.start_failed = TRUE,
                                        !.error = "input_manager.start" ]
              ELSE inp' = [ base EXCEPT
                              !.pc = "loop",
                              !.manager = IF starts THEN "started" ELSE @,
                              !.has_objs = TRUE ]

\* Lines 175-179: how the object is constructed.
ConstructedVia_alwaysLocal(st) == "local"

ConstructedVia(st) == IF st.use_manager THEN "proxy" ELSE "local"

\* Lines 160, 166: the pre-pass that looks for the safe inputs only.
PrePass_always(call) == TRUE

PrePass(call) == call.safe_only

\* Line 195: the value types whose current values are dropped after a build.
InvalidatedTypes_all(loader) == ValueTypes

InvalidatedTypes(loader) == loader.types

\* galsim.config.RemoveCurrent(config, type=value_type), for each of types:
\* the cached current values of these types are gone, the others stay.
RemoveCurrent(cached, types) == cached \ types

\* Lines 161-162, 169-170: input_objs[i] = None; input_objs_safe[i] = None.
\* (The mutant leaves the safe flag as it was.)
SkippedSlot_flagKept(old) == [ obj |-> NoObj, safe |-> old.safe ]

SkippedSlot(old) == [ obj |-> NoObj, safe |-> "None" ]

\* One log entry of the loop over the slots: the slot before and after, what
\* getKwargs and the construction did, and the cached types before and after.
SlotLog(sl, before, after, kw, ctor, cached_before, cached_after) ==
    [ slot |-> sl, before |-> before, after |-> after, kw |-> kw, ctor |-> ctor,
      cached_before |-> cached_before, cached_after |-> cached_after ]

\* Lines 128-199 for the slot at st.pos. kw is what loader.getKwargs does
\* ("raise", or it returns with safe "True" or "False"); ctor is what the
\* construction does ("ok" or "raise").
SlotStep(st, kw, ctor) ==
    LET sl == Slots(st.cfg)[st.pos]
        old == st.objs[sl]
        loader == Loader(sl.key)
        go(after, k2, c2, removed) ==
            [ st EXCEPT !.pos = @ + 1,
                        !.objs[sl] = after,
                        !.cached = RemoveCurrent(@, removed),
                        !.nctor[sl] = IF c2 = "none" THEN @ ELSE @ + 1,
                        !.log = Append(@, SlotLog(sl, old, after, k2, c2, st.cached,
                                                  RemoveCurrent(st.cached, removed))) ]
        fail(k2, c2, what) ==
            [ st EXCEPT !.pc = "raised", !.error = what,
                        !.nctor[sl] = IF c2 = "none" THEN @ ELSE @ + 1,
                        !.log = Append(@, SlotLog(sl, old, old, k2, c2, st.cached,
                                                  st.cached)) ]
    IN  IF st.call.file_scope_only /\ ~loader.file_scope
        THEN go(old, "out_of_scope", "none", {})
        ELSE IF BuiltSafe(old)
        THEN go(old, "none", "none", {})
        ELSE IF kw = "raise"
        THEN IF PrePass(st.call)
             THEN go(SkippedSlot(old), "raise", "none", {})
             ELSE fail("raise", "none", "getKwargs")
        ELSE IF PrePass(st.call) /\ kw # "True"
        THEN go(SkippedSlot(old), kw, "none", {})
        ELSE IF ctor = "raise" \/ (st.use_manager /\ st.manager # "started")
        THEN fail(kw, "raise", "init_func")
        ELSE go([ obj |-> [ id |-> st.nctor[sl] + 1, via |-> ConstructedVia(st) ],
                  safe |-> kw ],
                kw, "ok", InvalidatedTypes(loader))

InputSlot(kw, ctor) ==
    /\ InputFrame
    /\ inp.pc = "loop"
    /\ inp.pos <= Len(Slots(inp.cfg))
    /\ inp' = SlotStep(inp, kw, ctor)

\* Lines 201-203: CheckAllParams(config['input'], ignore=valid_keys); a key
\* it is not told to ignore is an error.
InputCheck ==
    /\ InputFrame
    /\ inp.pc = "loop"
    /\ inp.pos > Len(Slots(inp.cfg))
    /\ IF DOMAIN inp.cfg.input \subseteq IgnoredKeys(inp.cfg)
       THEN inp' = [ inp EXCEPT !.pc = "returned" ]
       ELSE inp' = [ inp EXCEPT !.pc = "raised", !.error = "CheckAllParams" ]

NextInput ==
    \/ InputCacheValues
    \/ \E fnum \in { 0, 1 }, fso, so, started \in BOOLEAN : InputCall(fnum, fso, so, started)
    \/ \E kw \in { "raise", "True", "False" }, ctor \in { "ok", "raise" } : InputSlot(kw, ctor)
    \/ InputCheck

SpecInput == InitInput /\ [][NextInput]_vars

\* ---------------------------------------------------- claims: ProcessInput
\* The slot held an object before the step.
HadObject(e) == e.before.obj # NoObj

\* The step (re)built the slot: it now holds an object constructed in it.
Rebuilt(e) == e.ctor = "ok" /\ e.after.obj # NoObj /\ e.after.obj # e.before.obj

\* C13: a slot that holds an object with a true safe flag comes out of every
\* ProcessInput call, whatever its file_num and flags, with the same object;
\* neither getKwargs nor the constructor is called for it, and the number of
\* constructions of the slot stays what it was when the object was made.
C13_BuiltSafeIsKept ==
    inp.pc # "idle" =>
       /\ \A n \in 1..Len(inp.log) :
             LET e == inp.log[n]
             IN  (HadObject(e) /\ e.before.safe = "True") =>
                    /\ e.after = e.before
                    /\ e.kw \in { "none", "out_of_scope" }
                    /\ e.ctor = "none"
       /\ \A sl \in DOMAIN inp.objs :
             (inp.objs[sl].obj # NoObj /\ inp.objs[sl].safe = "True") =>
                inp.nctor[sl] = inp.objs[sl].obj.id

\* A second call, for another file and as a pre-pass, has gone over a slot
\* that was built safe by the first: one construction.
C13_Witness ==
    /\ inp.pc = "returned"
    /\ inp.ncalls = 2
    /\ inp.new_file
    /\ inp.call.safe_only
    /\ \E n \in 1..Len(inp.log) :
          /\ HadObject(inp.log[n])
          /\ inp.log[n].before.safe = "True"
          /\ inp.log[n].kw = "none"
          /\ inp.nctor[inp.log[n].slot] = 1

\* The step went over a slot that held an object with a safe flag that is
\* not true, in a call that processes the slot's type.
UnsafeProcessed(e) ==
    HadObject(e) /\ e.before.safe # "True" /\ e.kw # "out_of_scope"

\* C14 as claimed: in a call for a new file, a processed slot whose stored
\* safe flag is false is reconstructed: when getKwargs returns, the
\* constructor is called.
C14_UnsafeIsReconstructed ==
    (inp.pc # "idle" /\ inp.new_file) =>
       \A n \in 1..Len(inp.log) :
          LET e == inp.log[n]
          IN  (UnsafeProcessed(e) /\ e.kw \in { "True", "False" }) => e.ctor # "none"

\* C14, amended: an object stored with a safe flag that is not true is never
\* kept by a call that processes its slot: getKwargs is called anew, and
\* either the call ends there with the error, or (pre-pass, not safe) the
\* slot is emptied without a construction, or the constructor is called and
\* the slot holds the new object.
C14_UnsafeIsNeverKept ==
    inp.pc # "idle" =>
       \A n \in 1..Len(inp.log) :
          LET e == inp.log[n]
          IN  UnsafeProcessed(e) =>
                 /\ e.kw \in { "raise", "True", "False" }
                 /\ \/ inp.pc = "raised" /\ n = Len(inp.log) /\ e.after = e.before
                    \/ inp.call.safe_only /\ e.kw # "True" /\ e.ctor = "none"
                         /\ e.after = EmptySlot
                    \/ Rebuilt(e) /\ e.after.obj.id > e.before.obj.id
                 /\ (~inp.call.safe_only /\ ~(inp.pc = "raised" /\ n = Len(inp.log)))
                       => Rebuilt(e)

\* The call for the next file has rebuilt a slot whose object was not safe.
C14_Witness ==
    /\ inp.pc = "returned"
    /\ inp.new_file
    /\ ~inp.call.safe_only
    /\ \E n \in 1..Len(inp.log) :
          /\ UnsafeProcessed(inp.log[n])
          /\ inp.log[n].before.safe = "False"
          /\ Rebuilt(inp.log[n])
          /\ inp.log[n].after.obj.id = 2

\* C15: a step that (re)builds a slot removes the cached current values of
\* the types in the loader's types and of no other type; a step that does not
\* build (the object is reused, the slot skipped or emptied, the step fails)
\* removes none.
C15_InvalidatesExactlyLoaderTypes ==
    inp.pc # "idle" =>
       \A n \in 1..Len(inp.log) :
          LET e == inp.log[n]
          IN  /\ e.cached_after \subseteq e.cached_before
              /\ e.cached_before \ e.cached_after =
                    IF Rebuilt(e) THEN e.cached_before \cap Loader(e.slot.key).types
                    ELSE {}
              /\ Rebuilt(e) => e.cached_after \cap Loader(e.slot.key).types = {}

\* With values of all types cached, one call has rebuilt the catalog (its
\* type is gone, Dict and Random stay) and reused the dict.
C15_Witness ==
    /\ inp.pc = "returned"
    /\ inp.cached = { "Dict", "Random" }
    /\ \E n, m \in 1..Len(inp.log) :
          /\ inp.log[n].slot.key = "catalog"
          /\ Rebuilt(inp.log[n])
          /\ inp.log[n].cached_before = ValueTypes
          /\ inp.log[m].slot.key = "dict"
          /\ inp.log[m].kw = "none"

\* C16 as claimed: a pre-pass (safe_only) never ends with the failure of
\* getKwargs or of the constructor.
C16_PrePassSwallowsFailures ==
    (inp.pc = "raised" /\ inp.call.safe_only) =>
       inp.error \notin { "getKwargs", "init_func" }

\* C17: without safe_only no failure is swallowed: a step in which getKwargs
\* or the construction failed is the last of the call, the call has ended
\* with that error, and the slot is as it was before.
C17_FailuresPropagate ==
    (inp.pc # "idle" /\ ~inp.call.safe_only) =>
       \A n \in 1..Len(inp.log) :
          LET e == inp.log[n]
          IN  /\ (e.kw = "raise" \/ e.ctor = "raise") =>
                    /\ n = Len(inp.log)
                    /\ inp.pc = "raised"
                    /\ inp.error = (IF e.kw = "raise" THEN "getKwargs" ELSE "init_func")
                    /\ e.after = e.before
                    /\ inp.objs[e.slot] = e.before
              /\ (e.after # e.before /\ e.after.obj # NoObj) => e.ctor = "ok"

\* A call without safe_only has ended with the constructor's error for a
\* slot after having built another.
C17_Witness ==
    /\ inp.pc = "raised"
    /\ ~inp.call.safe_only
    /\ inp.error = "init_func"
    /\ Len(inp.log) = 2
    /\ Rebuilt(inp.log[1])
    /\ inp.log[2].ctor = "raise"
    /\ inp.objs[inp.log[2].slot].obj = NoObj

\* config['input'] has a key that is no registered input type.
HasUnknownKey == ~(DOMAIN inp.cfg.input \subseteq Range(valid_input_types))

\* C18: a ProcessInput call on a config whose input has an unknown key does
\* not return normally, in any mode.
C18_UnknownKeyIsAnError ==
    (inp.pc # "idle" /\ HasUnknownKey /\ inp.ncalls >= 1) => inp.pc # "returned"

\* A pre-pass that swallowed the failure of the catalog has ended with the
\* error of CheckAllParams.
C18_Witness ==
    /\ inp.pc = "raised"
    /\ HasUnknownKey
    /\ inp.call.safe_only
    /\ inp.error = "CheckAllParams"
    /\ Len(inp.log) = 1
    /\ inp.log[1].kw = "raise"

\* More than one worker process will run, as far as the config says:
\* image.nproc or output.nproc is given and is not 1.
SeveralWorkers ==
    \/ (inp.cfg.nproc.image # None /\ inp.cfg.nproc.image # 1)
    \/ (inp.cfg.nproc.output # None /\ inp.cfg.nproc.output # 1)

\* C19 as claimed: a manager is started only when more than one worker will
\* run and the input section has a slot of a registered type.
C19_ManagerOnlyWhenNeeded ==
    (inp.pc # "idle" /\ inp.manager = "started") =>
       (SeveralWorkers /\ Len(Slots(inp.cfg)) >= 1)

\* C20 as claimed: when the manager fails to start, ProcessInput does not
\* fail; it goes on and ends with every slot built.
C20_FallsBackToLocal ==
    (inp.pc # "idle" /\ inp.start_failed) =>
       /\ inp.pc # "raised"
       /\ inp.pc = "returned" => \A sl \in DOMAIN inp.objs : inp.objs[sl].obj # NoObj

\* C21 as claimed: once config holds an input_manager, every object in
\* input_objs is a proxy made through the manager.
C21_OnlyProxiesOnceShared ==
    (inp.pc # "idle" /\ inp.manager # "absent") =>
       \A sl \in DOMAIN inp.objs :
          inp.objs[sl].obj # NoObj => inp.objs[sl].obj.via = "proxy"

\* C21, amended: an object is a proxy exactly when the call that constructed
\* it used the manager (not file_scope_only, not in a worker, image.nproc or
\* output.nproc given and not 1), and then the manager is started; a call
\* with file_scope_only constructs locally, so in a config that uses the
\* manager the local objects are of file-scope types only.
C21_ProxyIffBuiltThroughManager ==
    inp.pc # "idle" =>
       /\ \A n \in 1..Len(inp.log) :
             LET e == inp.log[n]
             IN  Rebuilt(e) =>
                    /\ e.after.obj.via =
                          (IF use_manager(inp.cfg, inp.call.file_scope_only)
                           THEN "proxy" ELSE "local")
                    /\ e.after.obj.via = "proxy" => inp.manager = "started"
       /\ \A sl \in DOMAIN inp.objs :
             LET o == inp.objs[sl].obj
             IN  /\ o.via = "proxy" =>
                       (inp.manager = "started" /\ use_manager(inp.cfg, FALSE))
                 /\ (o.via = "local" /\ use_manager(inp.cfg, FALSE)) =>
                       Loader(sl.key).file_scope

\* With the manager started, the dict built by a file_scope_only call is a
\* local object kept as safe, next to a catalog that is a proxy.
C21_Witness ==
    /\ inp.pc = "returned"
    /\ inp.manager = "started"
    /\ ~inp.call.file_scope_only
    /\ \E sl, sm \in DOMAIN inp.objs :
          /\ sl.key = "dict"
          /\ inp.objs[sl].obj.via = "local"
          /\ inp.objs[sl].safe = "True"
          /\ sm.key = "catalog"
          /\ inp.objs[sm].obj.via = "proxy"

\* ================================= ProcessInputNObjects, the nobj functions
\* process.py lines 24-41: its own valid_input_types (the three types the
\* model keeps), in the two orders the model iterates the dict in.
process_input_types ==
    { << "catalog", "dict", "real_catalog" >>, << "real_catalog", "dict", "catalog" >> }

\* has_nobj of the loader (input.py lines 231, 396-397), the third entry of
\* the tuple (process.py lines 32-34, 131).
CountCapable_any(version, key) == TRUE

CountCapable(version, key) ==
    IF version = "input" THEN Loader(key).has_nobj
    ELSE key \in { "catalog", "real_catalog" }

\* getNObjects() of the first object of each type.
NObjectsChoices ==
    { [ catalog |-> 3, dict |-> 0, real_catalog |-> 5 ],
      [ catalog |-> 0, dict |-> 0, real_catalog |-> 5 ] }

\* The calls tried. version "input": ProcessInputNObjects(config, logger) of
\* input.py, on a config with or without 'input', with or without
\* input_objs, the first catalog in it safe or not. version "process": a
\* nobj function of process.py (GetNObjForFits, GetNObjForMultiFits,
\* GetNObjForDataCube), output.nimages given or left to the input catalog.
NObjRuns ==
    { [ version |-> "input", registry |-> valid_input_types, type |-> "none",
        has_input |-> hi, present |-> pr, has_objs |-> ho, safe0 |-> sf,
        logger |-> lg, auto |-> FALSE, nobjects |-> no ] :
          hi \in BOOLEAN, pr \in { { "catalog" }, { "dict" }, { "catalog", "dict" } },
          ho \in BOOLEAN, sf \in BOOLEAN, lg \in BOOLEAN, no \in NObjectsChoices }
    \cup
    { [ version |-> "process", registry |-> rg, type |-> ty,
        has_input |-> TRUE, present |-> pr, has_objs |-> FALSE, safe0 |-> FALSE,
        logger |-> FALSE, auto |-> au, nobjects |-> no ] :
          rg \in process_input_types, ty \in OutputTypes,
          pr \in { { "catalog" }, { "dict" }, { "catalog", "dict", "real_catalog" },
                   { "dict", "real_catalog" } },
          au \in BOOLEAN, no \in NObjectsChoices }

InitNObj ==
    /\ ProcIdle
    /\ CopyIdle
    /\ FitsIdle
    /\ CubeIdle
    /\ MultiIdle
    /\ ExtrasIdle
    /\ InputIdle
    /\ \E r \in NObjRuns :
          nob = [ pc |-> IF r.version = "input" THEN "pino" ELSE "start",
                  run |-> r, pos |-> 1, ret |-> "caller",
                  nimages_set |-> None, pinoLog |-> << >>,
                  constructed |-> << >>, stored |-> {}, error |-> "none" ]

NObjFrame ==
    UNCHANGED << procVars, copyVars, fitsVars, cubeVars, multiVars, extraVars, inputVars >>

\* Lines 749-752, 760-768, 782-790: the nobj function begins;
\* GetNObjForMultiFits and GetNObjForDataCube call ProcessInputNObjects when
\* output has no nimages and the image type is Single.
NObjFuncStart ==
    /\ NObjFrame
    /\ nob.pc = "start"
    /\ IF nob.run.type # "Fits" /\ nob.run.auto
       THEN nob' = [ nob EXCEPT !.pc = "pino", !.pos = 1, !.ret = "first" ]
       ELSE nob' = [ nob EXCEPT !.pc = "count" ]

\* Where a call of ProcessInputNObjects that returns result goes on: in its
\* caller, or in the nobj function (lines 768-770: a second call when nobj
\* is true, its result stored as output.nimages).
PinoReturn(st, result) ==
    LET logged == [ st EXCEPT !.pinoLog = Append(@, [ result |-> result,
                                                       error |-> "none" ]) ]
    IN  CASE st.ret = "caller" -> [ logged EXCEPT !.pc = "returned" ]
          [] st.ret = "first" ->
                IF result # None /\ result # 0
                THEN [ logged EXCEPT !.pc = "pino", !.pos = 1, !.ret = "second" ]
                ELSE [ logged EXCEPT !.pc = "params" ]
          [] OTHER -> [ logged EXCEPT !.pc = "params", !.nimages_set = result ]

PinoRaise(st, what) ==
    [ st EXCEPT !.pc = "raised", !.error = what,
                !.pinoLog = Append(@, [ result |-> None, error |-> what ]) ]

\* The key the loop of ProcessInputNObjects is at.
PinoKey == nob.run.registry[nob.pos]

\* input.py lines 229-231, process.py lines 128-132: a key that is not in
\* config['input'] or cannot count is passed over.
PinoSkip ==
    /\ NObjFrame
    /\ nob.pc = "pino"
    /\ nob.run.has_input
    /\ nob.pos <= Len(nob.run.registry)
    /\ ~(PinoKey \in nob.run.present /\ CountCapable(nob.run.version, PinoKey))
    /\ nob' = [ nob EXCEPT !.pos = @ + 1 ]

\* input.py lines 232-246, process.py lines 133-153: the first key that is in
\* config['input'] and can count. input.py reads config['input_objs'] (line
\* 234), takes its first object when it is safe and constructs one with
\* _nobjects_only otherwise, and with a logger evaluates
\* input_obj.getNOjects() (line 245), a method the object does not have;
\* process.py constructs with nobjects_only.
PinoCount ==
    /\ NObjFrame
    /\ nob.pc = "pino"
    /\ nob.run.has_input
    /\ nob.pos <= Len(nob.run.registry)
    /\ PinoKey \in nob.run.present /\ CountCapable(nob.run.version, PinoKey)
    /\ LET r == nob.run
           cached == r.version = "input" /\ r.has_objs /\ r.safe0
           built == IF cached THEN nob
                    ELSE [ nob EXCEPT !.constructed =
                              Append(@, [ key |-> PinoKey, nobjects_only |-> TRUE,
                                          by |-> "ProcessInputNObjects" ]) ]
       IN  IF r.version = "input" /\ ~r.has_objs
           THEN nob' = PinoRaise(nob, "KeyError")
           ELSE IF r.logger
           THEN nob' = PinoRaise(built, "AttributeError")
           ELSE nob' = PinoReturn(built, r.nobjects[PinoKey])

\* input.py lines 228, 247-248, process.py lines 122, 154-155: no input, or
\* no key that counts: None.
PinoNone ==
    /\ NObjFrame
    /\ nob.pc = "pino"
    /\ ~nob.run.has_input \/ nob.pos > Len(nob.run.registry)
    /\ nob' = PinoReturn(nob, None)

\* Lines 771-774, 793-796: GetAllParams(config['output'], ..., req = {
\* 'nimages' : int }); nimages is there when the config gave it or line 770 /
\* 792 has set it.
NObjParams ==
    /\ NObjFrame
    /\ nob.pc = "params"
    /\ IF nob.nimages_set # None
       THEN nob' = [ nob EXCEPT !.pc = "count" ]
       ELSE nob' = [ nob EXCEPT !.pc = "raised", !.error = "GetAllParams" ]

\* Lines 753-754, 775-776, 797-798: GetNObjForImage returns for every image.
NObjCountOk ==
    /\ NObjFrame
    /\ nob.pc = "count"
    /\ nob' = [ nob EXCEPT !.pc = "returned" ]

\* process.py lines 95-112, ProcessInput: every registered key in
\* config['input'] is built and stored as config[key].
FullProcessInput(st) ==
    LET keys == SelectSeq(st.run.registry, LAMBDA key : key \in st.run.present)
    IN  [ st EXCEPT
            !.constructed = @ \o [ n \in 1..Len(keys) |->
                                     [ key |-> keys[n], nobjects_only |-> FALSE,
                                       by |-> "ProcessInput" ] ],
            !.stored = @ \cup Range(keys) ]

\* Lines 755-757, 777-779, 799-801: GetNObjForImage raises ValueError (it
\* needs an input object); ProcessInput(config, file_num=file_num) is called
\* and the count is taken again.
NObjFallback ==
    /\ NObjFrame
    /\ nob.pc = "count"
    /\ nob.stored = {}
    /\ nob' = [ FullProcessInput(nob) EXCEPT !.pc = "returned" ]

NextNObj ==
    \/ NObjFuncStart
    \/ PinoSkip
    \/ PinoCount
    \/ PinoNone
    \/ NObjParams
    \/ NObjCountOk
    \/ NObjFallback

SpecNObj == InitNObj /\ [][NextNObj]_vars

\* ------------------------------------------- claims: ProcessInputNObjects
\* The types of the run that are in config['input'] and can count, in the
\* order of the registry.
CountCapablePresent(r) ==
    SelectSeq(r.registry,
              LAMBDA key : key \in r.present
                           /\ key \in { "catalog", "real_catalog" })

\* What the claim says ProcessInputNObjects returns.
FirstCount(r) ==
    IF r.has_input /\ CountCapablePresent(r) # << >>
    THEN r.nobjects[CountCapablePresent(r)[1]]
    ELSE None

\* C22 as claimed: every call of ProcessInputNObjects returns, and returns
\* the count of the first type in registry order that is in config['input']
\* and can count, or None when there is none.
C22_FirstCountCapableWins ==
    nob.pc # "idle" =>
       \A n \in 1..Len(nob.pinoLog) :
          /\ nob.pinoLog[n].error = "none"
          /\ nob.pinoLog[n].result = FirstCount(nob.run)

\* C23 as claimed: before dispatch only inputs that can count are
\* constructed, and nothing is stored among the input objects of the config.
C23_OnlyCountCapableBuilt ==
    nob.pc # "idle" =>
       /\ \A n \in 1..Len(nob.constructed) :
             nob.constructed[n].key \in { "catalog", "real_catalog" }
       /\ nob.stored = {}

\* C23, amended: ProcessInputNObjects constructs nothing but the first
\* present type that can count, with nobjects_only, and stores nothing; a nobj
\* function whose GetNObjForImage raises ValueError calls ProcessInput, which
\* constructs in full and stores every registered type of config['input'],
\* count-capable or not.
C23_PinoCountsOnlyFallbackBuildsAll ==
    nob.pc # "idle" =>
       /\ \A n \in 1..Len(nob.constructed) :
             LET b == nob.constructed[n]
             IN  IF b.by = "ProcessInputNObjects"
                 THEN /\ b.nobjects_only
                      /\ CountCapablePresent(nob.run) # << >>
                      /\ b.key = CountCapablePresent(nob.run)[1]
                 ELSE /\ ~b.nobjects_only
                      /\ nob.run.version = "process"
                      /\ nob.pc = "returned"
                      /\ b.key \in nob.stored
       /\ nob.stored # {} =>
             /\ nob.pc = "returned"
             /\ nob.stored = nob.run.present \cap Range(nob.run.registry)
             /\ \A key \in nob.stored :
                   \E n \in 1..Len(nob.constructed) :
                      nob.constructed[n] = [ key |-> key, nobjects_only |-> FALSE,
                                             by |-> "ProcessInput" ]

\* GetNObjForDataCube has taken nimages from the real_catalog, first in the
\* registry (two ProcessInputNObjects calls), and then fallen back to
\* ProcessInput, which has built and stored the dict as well.
C23_Witness ==
    /\ nob.pc = "returned"
    /\ nob.run.type = "DataCube"
    /\ nob.run.registry[1] = "real_catalog"
    /\ nob.nimages_set = 5
    /\ Len(nob.pinoLog) = 2
    /\ nob.stored = { "catalog", "dict", "real_catalog" }
    /\ Len(nob.constructed) = 5


\* ------------------------------------- claims: the task queue of Process
\* A run in which no build raises: no file's build fails, or the one that
\* would is skipped by output.skip.
NoBuildRaises == cfg.failFile = -1 \/ cfg.failFile \in cfg.skip

\* The task the loop over the files made for file f.
TaskOf(f) == taskLog[f + 1]

\* How many entries of the sequence s, and how many workers, are about file f.
QueuedFor(f) ==
    Cardinality({ i \in 1..Len(task_queue) :
                    task_queue[i].kind = "task" /\ task_queue[i].file_num = f })

HeldFor(f, sts) ==
    Cardinality({ w \in Workers : p_list[w].st \in sts /\ p_list[w].task.kind = "task"
                                  /\ p_list[w].task.file_num = f })

BuildsFor(f) ==
    Cardinality({ i \in 1..Len(buildLog) : buildLog[i].file_num = f })

ResultsFor(f) ==
    Cardinality({ i \in 1..Len(done_queue) : done_queue[i].file_num = f })
        + Cardinality({ i \in 1..Len(received) : received[i].file_num = f })

AllResults == done_queue \o received

\* C24: in a parallel run in which no build raises, every task put on the
\* task queue is at any moment in exactly one place (still queued, held by
\* exactly one worker, or built exactly once); ProcessInput has run once for
\* it exactly when a worker holds it ready or has built it, and never twice;
\* the build was called with the task's own numbers; every build has put
\* exactly one result, which carries the task's file_num and file_name; no
\* 'STOP' is queued or taken while a task is still queued; and when Process
\* has returned, every task was built once and its result received.
C24_EachTaskOnceOneResult ==
    (NoBuildRaises /\ UsesQueue(nproc) /\ pc # "start") =>
       /\ \A n \in 1..Len(putLog) :
             LET f == putLog[n]
             IN  /\ QueuedFor(f) + HeldFor(f, { "got", "ready" }) + BuildsFor(f) = 1
                 /\ inputLog[f] = HeldFor(f, { "ready" }) + BuildsFor(f)
                 /\ ResultsFor(f) = BuildsFor(f)
                 /\ \A w \in Workers :
                       p_list[w].st \in { "got", "ready" } /\ p_list[w].task.file_num = f
                          => p_list[w].task = TaskOf(f)
                 /\ \A i \in 1..Len(buildLog) :
                       buildLog[i].file_num = f => buildLog[i] = BuildCall(TaskOf(f))
                 /\ pc = "done" => BuildsFor(f) = 1 /\ inputLog[f] = 1
                                   /\ \E i \in 1..Len(received) : received[i].file_num = f
       /\ \A i \in 1..Len(AllResults) :
             /\ AllResults[i].file_num \in Range(putLog)
             /\ AllResults[i].file_name = TaskOf(AllResults[i].file_num).file_name
       /\ \A f \in 0..(cfg.nfiles - 1) :
             f \notin Range(putLog) => inputLog[f] = 0 /\ BuildsFor(f) = 0
       /\ Len(buildLog) = Len(AllResults)
       /\ (nstop > 0 \/ \E w \in Workers : p_list[w].st = "exited")
             => \A i \in 1..Len(task_queue) : task_queue[i].kind = "STOP"

\* Process has returned from a parallel run that queued two tasks or more,
\* built by different workers.
C24_Witness ==
    /\ NoBuildRaises
    /\ UsesQueue(nproc)
    /\ pc = "done"
    /\ Len(putLog) >= 2
    /\ Len(received) = Len(putLog)
    /\ \E i, j \in 1..Len(received) : received[i].proc # received[j].proc
    /\ \A w \in Workers : w <= nproc => p_list[w].st = "exited"


\* ------------------------------------------- Process under fair scheduling
\* The steps of Process itself, in the caller's process.
Dispatcher ==
    \/ ProcessSetup
    \/ ProcessFile
    \/ SeqProcessInput
    \/ SeqBuild
    \/ LoopExit
    \/ SpawnWorker
    \/ DrainResult
    \/ PutStop
    \/ JoinWorker

\* The steps of the worker process w (lines 269-277).
WorkerStep(w) == WorkerGet(w) \/ WorkerProcessInput(w) \/ WorkerBuild(w)

\* The caller runs on whenever it is not blocked in done_queue.get() or
\* join(); each worker is a process of its own (line 431, p.start(), line
\* 432) that the operating system keeps scheduling, and input.get() returns
\* once an item stays on the queue.
Fairness == WF_vars(Dispatcher) /\ \A w \in Workers : WF_vars(WorkerStep(w))

SpecLive == Init /\ [][Next]_vars /\ Fairness

\* C25: a parallel run in which every build returns, once it starts its
\* workers, eventually returns from Process with every one of the nproc
\* workers exited on a 'STOP' and every join done, whatever files were
\* skipped.
C25_ProcessReturns ==
    (NoBuildRaises /\ pc = "spawn")
        ~> (/\ pc = "done"
            /\ njoin = nproc
            /\ nstop = nproc
            /\ \A w \in Workers : w <= nproc => p_list[w].st = "exited")

\* Process has returned from a parallel run in which every file was skipped:
\* nothing was queued, and the nproc > 1 workers were started, stopped and
\* joined.
C25_Witness ==
    /\ NoBuildRaises
    /\ UsesQueue(nproc)
    /\ pc = "done"
    /\ putLog = << >>
    /\ buildLog = << >>
    /\ njoin = nproc
    /\ \A w \in Workers : w <= nproc => p_list[w].st = "exited"


\* ------------------------------------------------ claims: nproc of Process
\* Requests beyond the ones the runs are started with: output.nproc from
\* below zero to above every nfiles, nfiles from 0, cpu_count() raising (0)
\* or returning up to more than every nfiles (looked at where Process
\* starts).
NprocCases ==
    { [ type |-> ty, nfiles |-> n, nprocReq |-> r, ncpu |-> u ] :
        ty \in OutputTypes, n \in 0..(MaxFiles + 1),
        r \in (-2)..(MaxFiles + 2), u \in 0..(MaxFiles + 2) }

\* C26: whatever output.nproc asks for (positive, zero, negative) and
\* whatever nfiles is, Process starts no more file-level workers than there
\* are files; and with nfiles = 1 and an output type that takes nproc
\* (MultiFits, DataCube), a request above 1 makes the file-level nproc 1 and
\* reaches the build function as its nproc argument.
C26_WorkersAtMostFiles ==
    /\ pc = "start" =>
          \A c \in NprocCases :
             LET e == EffectiveNproc(c)
             IN  /\ UsesQueue(e.nproc) => e.nproc <= c.nfiles
                 /\ (c.nfiles = 1 /\ can_do_multiple(c.type) /\ c.nprocReq > 1)
                       => e.nproc = 1 /\ e.nproc2 = c.nprocReq
    /\ NSpawned <= cfg.nfiles
    /\ NSpawned <= nproc
    /\ pc \in { "drain", "stop", "join" } => NSpawned = nproc
    /\ (pc # "start" /\ cfg.nfiles = 1 /\ can_do_multiple(cfg.type) /\ cfg.nprocReq > 1)
          => /\ nproc = 1
             /\ nproc2 = cfg.nprocReq
             /\ NSpawned = 0
             /\ task_queue = << >>
             /\ \A i \in 1..Len(taskLog) : taskLog[i].nproc = cfg.nprocReq
             /\ pc \in { "seqInput", "seqBuild" } => cur.nproc = cfg.nprocReq

\* A MultiFits or DataCube run with one file and output.nproc = 2 has
\* returned: no worker was started and the one build was called in the
\* caller with nproc = 2.
C26_Witness ==
    /\ pc = "done"
    /\ cfg.nfiles = 1
    /\ can_do_multiple(cfg.type)
    /\ cfg.nprocReq > 1
    /\ NSpawned = 0
    /\ Len(buildLog) = 1
    /\ taskLog[1].nproc = cfg.nprocReq


\* ------------------------------------------------ claims: skipped files
\* image_num and obj_num at the start of file f when no file is skipped.
RECURSIVE StartOfFile(_, _)
StartOfFile(c, f) ==
    IF f = 0 THEN [ image_num |-> 0, obj_num |-> 0 ]
    ELSE LET before == StartOfFile(c, f - 1)
         IN  Advance(before, nobj_func(c, f - 1, before.image_num))

\* C27: a file the loop of Process skips is never handed to a build (neither
\* built nor queued); it advances image_num and obj_num by its own counts,
\* so every file that is built starts at the numbers it would start at were
\* nothing skipped, and so do the counters between the files; and between
\* two files last_file_name is what the last file that was not skipped left
\* (a skipped file leaves it unchanged).
C27_SkippedFileStillCounts ==
    extras.pc # "idle" =>
       /\ \A i \in 1..Len(extras.given) :
             /\ extras.given[i].file_num \notin extras.run.skip
             /\ extras.given[i].image_num
                   = StartOfFile(extras.run.counts, extras.given[i].file_num).image_num
             /\ extras.given[i].obj_num
                   = StartOfFile(extras.run.counts, extras.given[i].file_num).obj_num
       /\ \A f \in extras.run.skip :
             f < extras.file_num => Len(extras.given) = extras.file_num - 1
       /\ extras.pc \in { "file", "done" } =>
             /\ extras.image_num = StartOfFile(extras.run.counts, extras.file_num).image_num
             /\ extras.obj_num = StartOfFile(extras.run.counts, extras.file_num).obj_num
             /\ extras.last_file_name =
                   IF extras.given = << >> THEN NoExtraKwargs
                   ELSE extras.given[Len(extras.given)].last_file_name

\* The loop is over a run whose middle file was skipped after the first file
\* had set last_file_name, and the file after the skipped one was built.
C27_Witness ==
    /\ extras.pc = "done"
    /\ extras.run.skip = { 1 }
    /\ extras.run.nfiles = 3
    /\ Len(extras.given) = 2
    /\ extras.given[1].last_file_name # NoExtraKwargs
    /\ extras.given[2].file_num = 2
    /\ extras.given[2].obj_num > extras.given[2].image_num


\* ------------------------------------- claims: numbering in BuildDataCube
\* The objects of the images of the call c before its image number m.
CubeObjsBefore(c, m) ==
    SumSeq([ i \in 1..(m - c.image_num) |-> GetNObjForImage(c, c.image_num + i - 1) ])

\* C28: BuildDataCube builds the first image with the image_num and obj_num
\* it was called with; with nimages = 1 BuildImages is never called; with
\* nimages > 1 it is called for nimages - 1 images from image_num + 1 and
\* from obj_num plus the objects of the first image; no image is built
\* twice, every image built has the obj_num of the call plus the objects of
\* the images before it, and when the cube is written exactly nimages
\* images were built, numbered image_num .. image_num + nimages - 1.
C28_ConsecutiveNumbering ==
    cube.pc # "idle" =>
       LET c == cube.call
       IN  /\ Len(cube.built) <= c.nimages
           /\ Len(cube.built) >= 1 =>
                 /\ cube.built[1].image_num = c.image_num
                 /\ cube.built[1].obj_num = c.obj_num
           /\ c.nimages = 1 => cube.request = NoRequest /\ cube.pending = {}
           /\ cube.pc \in { "first", "record", "rest" } => cube.request = NoRequest
           /\ (c.nimages > 1 /\ cube.pc \in { "images", "return" }) =>
                 cube.request = [ n |-> c.nimages - 1, image_num |-> c.image_num + 1,
                                  obj_num |-> c.obj_num
                                                + GetNObjForImage(c, c.image_num) ]
           /\ \A i, j \in 1..Len(cube.built) :
                 i # j => cube.built[i].image_num # cube.built[j].image_num
           /\ \A i \in 1..Len(cube.built) :
                 /\ cube.built[i].image_num \in c.image_num..(c.image_num + c.nimages - 1)
                 /\ cube.built[i].obj_num
                       = c.obj_num + CubeObjsBefore(c, cube.built[i].image_num)
           /\ cube.written => Len(cube.built) = c.nimages

\* A cube of three images with one and two objects in turn, called with
\* image_num 3 and obj_num 7, has been written: BuildImages was asked for
\* two images from image 4 and object 9.
C28_Witness ==
    /\ cube.pc = "return"
    /\ cube.written
    /\ cube.call.nimages = 3
    /\ cube.call.image_num = 3
    /\ cube.call.obj_num = 7
    /\ cube.call.nobj = << 1, 2 >>
    /\ cube.request = [ n |-> 2, image_num |-> 4, obj_num |-> 9 ]
    /\ Len(cube.built) = 3


\* ------------------------------------------ claims: the lists of input_objs
\* The entries input_objs[key] and input_objs[key + '_safe'] have.
EntriesOf(key) == { sl \in DOMAIN inp.objs : sl.key = key }

InvalidHduRequest == BadHduRequest \/ ~Contiguous

\* C30 as claimed: with invalid hdu numbers (non-positive, duplicate or
\* leaving a gap) BuildFits never calls BuildImage and writes no file, main,
\* psf, weight or badpix.
C30_InvalidLayoutBuildsNothing ==
    (fits.pc # "idle" /\ InvalidHduRequest) => (~fits.built /\ fits.written = {})

====
